---------------------------- MODULE Spec2Model ----------------------------
(***************************************************************************)
(* Three-state nucleosome model (A acetylated, U unmodified, M methylated) *)
(* of avg_lifetime.py, bistability.py, core_code/coop_noncoop.py,          *)
(* core_code/spatial_recuit.py and their pd_* copies (the step functions   *)
(* of pd_coop_noncoop.py and pd_spatial_recrut.py are textually the same). *)
(*                                                                         *)
(* Random draws are inputs.  np.random.randint(N) is any index of 0..N-1;  *)
(* np.random.rand() is a point k/den of a finite grid of [0,1), written as *)
(* the pair <<k, den>>, and every comparison the code makes with it is     *)
(* computed on the fractions.  Float sums and quotients (the gap score,    *)
(* np.mean) are kept as exact fractions.                                   *)
(***************************************************************************)
EXTENDS Integers, Sequences, FiniteSets

\* Nucleosome states, A, U, M = 0, 1, 2
A == 0
U == 1
M == 2

\* Number of nucleosomes (60 in the scripts), scaled down.
N == 4
\* Largest feedback-to-noise ratio F tried; F ranges over 0..MaxF.
MaxF == 1
\* Grid of the noise draw r and of the left/right coin: r is k/RDen.
RDen == 3
\* Longest label sequence fed to the lifetime tracker.
MaxTmax == 9
\* Largest Tmax of a calculate_lifetime call (800000 in the script).
MaxLifeTmax == 5
\* Largest Tmax and Teq of a compute_gap_measure call (800000 and 10*N).
MaxGapTmax == 2
MaxTeq == 1

VARIABLES
    state,      \* the array of N marks
    prev,       \* history: the array as it was when the running tick began
    fn,         \* the step function the run uses
    F,          \* the feedback-to-noise ratio passed to it
    frame,      \* the local variables of the step function at its return
    pc,         \* "idle" between ticks, "stepped" at a step function's return;
                \* "lifetime", "gap" inside a measurement call; "avg", "dist"
                \* between the runs of a call and "avg_run", "dist_run" in
                \* a run; "returned" with the histogram; "done" at the end
    Tmax,       \* measurement ticks of the call
    Teq,        \* equilibration ticks of the call
    t,          \* ticks the call has executed
    current_state,      \* calculate_lifetime: label of the open run
    current_duration,   \* calculate_lifetime: its length so far
    durations,          \* calculate_lifetime: the recorded run lengths
    labels,     \* history: the label of every tick of calculate_lifetime
    gap_sum,    \* compute_gap_measure: the running sum, a fraction
    hist,       \* history: <<M1, A1>> after every tick of compute_gap_measure
    result,     \* what the measurement call returned
    num_runs,   \* runs the call was asked for (num_runs, runs)
    run,        \* runs the call has completed
    G_vals,             \* run_simulation_avg: the samples of the open run
    G_vals_all_runs,    \* run_simulation_avg: the means of the finished runs
    hist_total, \* simulate_distribution: the Counter, delta -> count
    returned,   \* history: the array the latest step_fn call returned
    seen,       \* history: the ticks of the open run, counted by kind
    config      \* history: the calling script and its module-level settings

tickVars == <<state, prev, fn, F, frame, pc>>
lifeVars == <<current_state, current_duration, durations, labels>>
gapVars == <<gap_sum, hist>>
runVars == <<num_runs, run, G_vals, G_vals_all_runs, hist_total, returned,
             seen, config>>
vars == <<tickVars, Tmax, Teq, t, lifeVars, gapVars, result, runVars>>

Marks == {A, U, M}
Sites == 0 .. (N - 1)
Arrays == [Sites -> Marks]

----------------------------------------------------------------------------
\* Fractions <<num, den>> with den > 0.

\* x < y on fractions
Less(x, y) == x[1] * y[2] < y[1] * x[2]

\* Mutant of alpha: the noise share 1 / (1 + F) is taken for alpha.
alpha_noise(F_) == <<1, 1 + F_>>

\* alpha = F / (1 + F)
alpha(F_) == <<F_, 1 + F_>>

\* The grid of the top-level coin np.random.rand(): fine enough that for
\* every F in 1..MaxF some point is below alpha and some point is not.
CoinDen == MaxF + 1
Coins == {<<k, CoinDen>> : k \in 0 .. (CoinDen - 1)}

\* The grid of the other np.random.rand() draws.
Rands == {<<k, RDen>> : k \in 0 .. (RDen - 1)}

\* Mutant of Set: the marks numbered from 1, so M is stored as 3.
Set_shifted(st, i, v) == [st EXCEPT ![i] = v + 1]

\* state[i] = v
Set(st, i, v) == [st EXCEPT ![i] = v]

----------------------------------------------------------------------------
\* The draws of one call, by the branch the coin selects.  A frame holds
\* exactly the locals the call binds: n2 (n3) only on the feedback branch,
\* r only on the noise branch, call (the callee's frame) only where the
\* function delegates its noise branch to another step function.

\* step, standard: n1, coin, then n2 or r
GlobalDraws == [F_ \in 0 .. MaxF |->
    {[branch |-> "feedback", n1 |-> a, r0 |-> c, n2 |-> b] :
        a \in Sites, c \in {x \in Coins : Less(x, alpha(F_))}, b \in Sites}
    \cup
    {[branch |-> "noise", n1 |-> a, r0 |-> c, r |-> q] :
        a \in Sites, c \in {x \in Coins : ~Less(x, alpha(F_))}, q \in Rands}]

\* step_coop_A/B/C: n1, coin, then n2, n3 or r
CoopDraws == [F_ \in 0 .. MaxF |->
    {[branch |-> "feedback", n1 |-> a, r0 |-> c, n2 |-> b[1], n3 |-> b[2]] :
        a \in Sites, c \in {x \in Coins : Less(x, alpha(F_))},
        b \in Sites \X Sites}
    \cup
    {[branch |-> "noise", n1 |-> a, r0 |-> c, r |-> q] :
        a \in Sites, c \in {x \in Coins : ~Less(x, alpha(F_))}, q \in Rands}]

\* step_noncoop_A/B/C: n1, coin, then n2 or the call step_coop_X(state, 0)
NoncoopDraws == [F_ \in 0 .. MaxF |->
    {[branch |-> "feedback", n1 |-> a, r0 |-> c, n2 |-> b] :
        a \in Sites, c \in {x \in Coins : Less(x, alpha(F_))}, b \in Sites}
    \cup
    {[branch |-> "noise", n1 |-> a, r0 |-> c, call |-> d] :
        a \in Sites, c \in {x \in Coins : ~Less(x, alpha(F_))},
        d \in CoopDraws[0]}]

\* Mutant of neighbour_n2: the recruiter is always the right neighbour.
neighbour_n2_right(n1, c) == (n1 + 1) % N

\* n2 = (n1 - 1) % N if np.random.rand() < 0.5 else (n1 + 1) % N
neighbour_n2(n1, c) ==
    IF Less(c, <<1, 2>>) THEN (n1 - 1) % N ELSE (n1 + 1) % N

\* neighbour_limited: n1, coin, then the side coin or the call standard(state, 0)
NeighbourDraws == [F_ \in 0 .. MaxF |->
    {[branch |-> "feedback", n1 |-> a, r0 |-> c, side |-> s,
      n2 |-> neighbour_n2(a, s)] :
        a \in Sites, c \in {x \in Coins : Less(x, alpha(F_))}, s \in Rands}
    \cup
    {[branch |-> "noise", n1 |-> a, r0 |-> c, call |-> d] :
        a \in Sites, c \in {x \in Coins : ~Less(x, alpha(F_))},
        d \in GlobalDraws[0]}]

\* distances = np.arange(1, N); probs = 1 / distances**1.5 is positive at
\* every distance, so np.random.choice can return each of them.
distances == 1 .. (N - 1)

\* Mutant of power_law_n2: the distance is taken modulo N - 1.
power_law_n2_short(n1, d, c) ==
    IF Less(c, <<1, 2>>) THEN (n1 + (d % (N - 1))) % N
    ELSE (n1 - (d % (N - 1))) % N

\* n2 = (n1 + d) % N if np.random.rand() < 0.5 else (n1 - d) % N
power_law_n2(n1, d, c) ==
    IF Less(c, <<1, 2>>) THEN (n1 + d) % N ELSE (n1 - d) % N

\* power_law_contact: n1, coin, then d and the side coin, or the call
\* standard(state, 0)
PowerLawDraws == [F_ \in 0 .. MaxF |->
    {[branch |-> "feedback", n1 |-> a, r0 |-> c, d |-> e, side |-> s,
      n2 |-> power_law_n2(a, e, s)] :
        a \in Sites, c \in {x \in Coins : Less(x, alpha(F_))},
        e \in distances, s \in Rands}
    \cup
    {[branch |-> "noise", n1 |-> a, r0 |-> c, call |-> d] :
        a \in Sites, c \in {x \in Coins : ~Less(x, alpha(F_))},
        d \in GlobalDraws[0]}]


----------------------------------------------------------------------------
\* The step functions.  st is the array at the call, F_ the ratio passed,
\* d the draws of the call; the value is the array the call returns.

\* Mutant of step: the noise branch demodifies an A target when r <= 1/3.
step_le(st, F_, d) ==
    IF Less(d.r0, alpha(F_))
    THEN IF st[d.n2] = M
         THEN IF st[d.n1] = A THEN Set(st, d.n1, U)
              ELSE IF st[d.n1] = U THEN Set(st, d.n1, M)
              ELSE st
         ELSE IF st[d.n2] = A
         THEN IF st[d.n1] = M THEN Set(st, d.n1, U)
              ELSE IF st[d.n1] = U THEN Set(st, d.n1, A)
              ELSE st
         ELSE st
    ELSE IF st[d.n1] = A /\ ~Less(<<1, 3>>, d.r) THEN Set(st, d.n1, U)
         ELSE IF st[d.n1] = U
         THEN IF Less(d.r, <<1, 3>>) THEN Set(st, d.n1, A)
              ELSE IF Less(d.r, <<2, 3>>) THEN Set(st, d.n1, M)
              ELSE Set(st, d.n1, U)
         ELSE IF st[d.n1] = M /\ Less(d.r, <<1, 3>>) THEN Set(st, d.n1, U)
         ELSE st

\* avg_lifetime.py: step
step(st, F_, d) ==
    IF Less(d.r0, alpha(F_))
    THEN IF st[d.n2] = M
         THEN IF st[d.n1] = A THEN Set(st, d.n1, U)
              ELSE IF st[d.n1] = U THEN Set(st, d.n1, M)
              ELSE st
         ELSE IF st[d.n2] = A
         THEN IF st[d.n1] = M THEN Set(st, d.n1, U)
              ELSE IF st[d.n1] = U THEN Set(st, d.n1, A)
              ELSE st
         ELSE st
    ELSE IF st[d.n1] = A /\ Less(d.r, <<1, 3>>) THEN Set(st, d.n1, U)
         ELSE IF st[d.n1] = U
         THEN IF Less(d.r, <<1, 3>>) THEN Set(st, d.n1, A)
              ELSE IF Less(d.r, <<2, 3>>) THEN Set(st, d.n1, M)
              ELSE Set(st, d.n1, U)
         ELSE IF st[d.n1] = M /\ Less(d.r, <<1, 3>>) THEN Set(st, d.n1, U)
         ELSE st

\* Mutant of bistability_step: noise demodifies an A target when r < 1/2.
bistability_step_half(st, F_, d) ==
    IF Less(d.r0, alpha(F_))
    THEN IF st[d.n2] = M
         THEN IF st[d.n1] = A THEN Set(st, d.n1, U)
              ELSE IF st[d.n1] = U THEN Set(st, d.n1, M)
              ELSE st
         ELSE IF st[d.n2] = A
         THEN IF st[d.n1] = M THEN Set(st, d.n1, U)
              ELSE IF st[d.n1] = U THEN Set(st, d.n1, A)
              ELSE st
         ELSE st
    ELSE IF st[d.n1] = A
         THEN IF Less(d.r, <<1, 2>>) THEN Set(st, d.n1, U) ELSE st
         ELSE IF st[d.n1] = U
         THEN IF Less(d.r, <<1, 3>>) THEN Set(st, d.n1, A)
              ELSE IF Less(d.r, <<2, 3>>) THEN Set(st, d.n1, M)
              ELSE Set(st, d.n1, U)
         ELSE IF st[d.n1] = M
         THEN IF Less(d.r, <<1, 3>>) THEN Set(st, d.n1, U) ELSE st
         ELSE st

\* bistability.py: step
bistability_step(st, F_, d) ==
    IF Less(d.r0, alpha(F_))
    THEN IF st[d.n2] = M
         THEN IF st[d.n1] = A THEN Set(st, d.n1, U)
              ELSE IF st[d.n1] = U THEN Set(st, d.n1, M)
              ELSE st
         ELSE IF st[d.n2] = A
         THEN IF st[d.n1] = M THEN Set(st, d.n1, U)
              ELSE IF st[d.n1] = U THEN Set(st, d.n1, A)
              ELSE st
         ELSE st
    ELSE IF st[d.n1] = A
         THEN IF Less(d.r, <<1, 3>>) THEN Set(st, d.n1, U) ELSE st
         ELSE IF st[d.n1] = U
         THEN IF Less(d.r, <<1, 3>>) THEN Set(st, d.n1, A)
              ELSE IF Less(d.r, <<2, 3>>) THEN Set(st, d.n1, M)
              ELSE Set(st, d.n1, U)
         ELSE IF st[d.n1] = M
         THEN IF Less(d.r, <<1, 3>>) THEN Set(st, d.n1, U) ELSE st
         ELSE st

\* Mutant of step_coop_A: an A verdict methylates a U target.
step_coop_A_swapped(st, F_, d) ==
    IF Less(d.r0, alpha(F_))
    THEN IF st[d.n2] = st[d.n3] /\ st[d.n2] # U
         THEN IF st[d.n2] = M
              THEN IF st[d.n1] = A THEN Set(st, d.n1, U)
                   ELSE IF st[d.n1] = U THEN Set(st, d.n1, M)
                   ELSE st
              ELSE IF st[d.n2] = A
              THEN IF st[d.n1] = M THEN Set(st, d.n1, U)
                   ELSE IF st[d.n1] = U THEN Set(st, d.n1, M)
                   ELSE st
              ELSE st
         ELSE st
    ELSE IF st[d.n1] = A /\ Less(d.r, <<1, 3>>) THEN Set(st, d.n1, U)
         ELSE IF st[d.n1] = U
         THEN IF Less(d.r, <<1, 3>>) THEN Set(st, d.n1, A)
              ELSE IF Less(d.r, <<2, 3>>) THEN Set(st, d.n1, M)
              ELSE st
         ELSE IF st[d.n1] = M /\ Less(d.r, <<1, 3>>) THEN Set(st, d.n1, U)
         ELSE st

\* Case A: both modifying and demodifying enzymes
step_coop_A(st, F_, d) ==
    IF Less(d.r0, alpha(F_))
    THEN IF st[d.n2] = st[d.n3] /\ st[d.n2] # U
         THEN IF st[d.n2] = M
              THEN IF st[d.n1] = A THEN Set(st, d.n1, U)
                   ELSE IF st[d.n1] = U THEN Set(st, d.n1, M)
                   ELSE st
              ELSE IF st[d.n2] = A
              THEN IF st[d.n1] = M THEN Set(st, d.n1, U)
                   ELSE IF st[d.n1] = U THEN Set(st, d.n1, A)
                   ELSE st
              ELSE st
         ELSE st
    ELSE IF st[d.n1] = A /\ Less(d.r, <<1, 3>>) THEN Set(st, d.n1, U)
         ELSE IF st[d.n1] = U
         THEN IF Less(d.r, <<1, 3>>) THEN Set(st, d.n1, A)
              ELSE IF Less(d.r, <<2, 3>>) THEN Set(st, d.n1, M)
              ELSE st
         ELSE IF st[d.n1] = M /\ Less(d.r, <<1, 3>>) THEN Set(st, d.n1, U)
         ELSE st

step_noncoop_A(st, F_, d) ==
    IF Less(d.r0, alpha(F_))
    THEN IF st[d.n2] # U
         THEN IF st[d.n2] = M
              THEN IF st[d.n1] = A THEN Set(st, d.n1, U)
                   ELSE IF st[d.n1] = U THEN Set(st, d.n1, M)
                   ELSE st
              ELSE IF st[d.n2] = A
              THEN IF st[d.n1] = M THEN Set(st, d.n1, U)
                   ELSE IF st[d.n1] = U THEN Set(st, d.n1, A)
                   ELSE st
              ELSE st
         ELSE st
    ELSE step_coop_A(st, 0, d.call)

\* Case B: only modifying enzymes recruited
step_coop_B(st, F_, d) ==
    IF Less(d.r0, alpha(F_))
    THEN IF st[d.n2] = st[d.n3] /\ st[d.n2] # U
         THEN IF st[d.n2] = M /\ st[d.n1] = U THEN Set(st, d.n1, M)
              ELSE IF st[d.n2] = A /\ st[d.n1] = U THEN Set(st, d.n1, A)
              ELSE st
         ELSE st
    ELSE IF st[d.n1] = A /\ Less(d.r, <<1, 3>>) THEN Set(st, d.n1, U)
         ELSE IF st[d.n1] = U
         THEN IF Less(d.r, <<1, 3>>) THEN Set(st, d.n1, A)
              ELSE IF Less(d.r, <<2, 3>>) THEN Set(st, d.n1, M)
              ELSE st
         ELSE IF st[d.n1] = M /\ Less(d.r, <<1, 3>>) THEN Set(st, d.n1, U)
         ELSE st

\* Mutant of step_noncoop_B: the A recruiter's line taken from Case C.
step_noncoop_B_demod(st, F_, d) ==
    IF Less(d.r0, alpha(F_))
    THEN IF st[d.n2] # U
         THEN IF st[d.n2] = M /\ st[d.n1] = U THEN Set(st, d.n1, M)
              ELSE IF st[d.n2] = A /\ st[d.n1] = M THEN Set(st, d.n1, U)
              ELSE st
         ELSE st
    ELSE step_coop_B(st, 0, d.call)

step_noncoop_B(st, F_, d) ==
    IF Less(d.r0, alpha(F_))
    THEN IF st[d.n2] # U
         THEN IF st[d.n2] = M /\ st[d.n1] = U THEN Set(st, d.n1, M)
              ELSE IF st[d.n2] = A /\ st[d.n1] = U THEN Set(st, d.n1, A)
              ELSE st
         ELSE st
    ELSE step_coop_B(st, 0, d.call)

\* Mutant of step_coop_C: the M recruiter's line taken from Case B.
step_coop_C_mod(st, F_, d) ==
    IF Less(d.r0, alpha(F_))
    THEN IF st[d.n2] = st[d.n3]
         THEN IF st[d.n2] = M /\ st[d.n1] = U THEN Set(st, d.n1, M)
              ELSE IF st[d.n2] = A /\ st[d.n1] = M THEN Set(st, d.n1, U)
              ELSE st
         ELSE st
    ELSE IF st[d.n1] = A /\ Less(d.r, <<1, 3>>) THEN Set(st, d.n1, U)
         ELSE IF st[d.n1] = U
         THEN IF Less(d.r, <<1, 3>>) THEN Set(st, d.n1, A)
              ELSE IF Less(d.r, <<2, 3>>) THEN Set(st, d.n1, M)
              ELSE st
         ELSE IF st[d.n1] = M /\ Less(d.r, <<1, 3>>) THEN Set(st, d.n1, U)
         ELSE st

\* Mutant of step_coop_C: the two recruiters are not compared.
step_coop_C_single(st, F_, d) ==
    IF Less(d.r0, alpha(F_))
    THEN IF st[d.n2] = M /\ st[d.n1] = A THEN Set(st, d.n1, U)
         ELSE IF st[d.n2] = A /\ st[d.n1] = M THEN Set(st, d.n1, U)
         ELSE st
    ELSE IF st[d.n1] = A /\ Less(d.r, <<1, 3>>) THEN Set(st, d.n1, U)
         ELSE IF st[d.n1] = U
         THEN IF Less(d.r, <<1, 3>>) THEN Set(st, d.n1, A)
              ELSE IF Less(d.r, <<2, 3>>) THEN Set(st, d.n1, M)
              ELSE st
         ELSE IF st[d.n1] = M /\ Less(d.r, <<1, 3>>) THEN Set(st, d.n1, U)
         ELSE st

\* Case C: only demodifying enzymes recruited
step_coop_C(st, F_, d) ==
    IF Less(d.r0, alpha(F_))
    THEN IF st[d.n2] = st[d.n3]
         THEN IF st[d.n2] = M /\ st[d.n1] = A THEN Set(st, d.n1, U)
              ELSE IF st[d.n2] = A /\ st[d.n1] = M THEN Set(st, d.n1, U)
              ELSE st
         ELSE st
    ELSE IF st[d.n1] = A /\ Less(d.r, <<1, 3>>) THEN Set(st, d.n1, U)
         ELSE IF st[d.n1] = U
         THEN IF Less(d.r, <<1, 3>>) THEN Set(st, d.n1, A)
              ELSE IF Less(d.r, <<2, 3>>) THEN Set(st, d.n1, M)
              ELSE st
         ELSE IF st[d.n1] = M /\ Less(d.r, <<1, 3>>) THEN Set(st, d.n1, U)
         ELSE st

\* Mutant of step_noncoop_C: an M recruiter demodifies an M target too.
step_noncoop_C_any(st, F_, d) ==
    IF Less(d.r0, alpha(F_))
    THEN IF st[d.n2] = M /\ st[d.n1] # U THEN Set(st, d.n1, U)
         ELSE IF st[d.n2] = A /\ st[d.n1] = M THEN Set(st, d.n1, U)
         ELSE st
    ELSE step_coop_C(st, 0, d.call)

\* Non-cooperative version of Case C
step_noncoop_C(st, F_, d) ==
    IF Less(d.r0, alpha(F_))
    THEN IF st[d.n2] = M /\ st[d.n1] = A THEN Set(st, d.n1, U)
         ELSE IF st[d.n2] = A /\ st[d.n1] = M THEN Set(st, d.n1, U)
         ELSE st
    ELSE step_coop_C(st, 0, d.call)

\* Mutant of standard: noise methylates a U target when 1/3 <= r < 1/2.
standard_half(st, F_, d) ==
    IF Less(d.r0, alpha(F_))
    THEN IF st[d.n2] # U
         THEN IF st[d.n2] = M
              THEN IF st[d.n1] = A THEN Set(st, d.n1, U)
                   ELSE IF st[d.n1] = U THEN Set(st, d.n1, M)
                   ELSE st
              ELSE IF st[d.n2] = A
              THEN IF st[d.n1] = M THEN Set(st, d.n1, U)
                   ELSE IF st[d.n1] = U THEN Set(st, d.n1, A)
                   ELSE st
              ELSE st
         ELSE st
    ELSE IF st[d.n1] = A /\ Less(d.r, <<1, 3>>) THEN Set(st, d.n1, U)
         ELSE IF st[d.n1] = U
         THEN IF Less(d.r, <<1, 3>>) THEN Set(st, d.n1, A)
              ELSE IF Less(d.r, <<1, 2>>) THEN Set(st, d.n1, M)
              ELSE st
         ELSE IF st[d.n1] = M /\ Less(d.r, <<1, 3>>) THEN Set(st, d.n1, U)
         ELSE st

\* Model A: standard model (no spatial constraint)
standard(st, F_, d) ==
    IF Less(d.r0, alpha(F_))
    THEN IF st[d.n2] # U
         THEN IF st[d.n2] = M
              THEN IF st[d.n1] = A THEN Set(st, d.n1, U)
                   ELSE IF st[d.n1] = U THEN Set(st, d.n1, M)
                   ELSE st
              ELSE IF st[d.n2] = A
              THEN IF st[d.n1] = M THEN Set(st, d.n1, U)
                   ELSE IF st[d.n1] = U THEN Set(st, d.n1, A)
                   ELSE st
              ELSE st
         ELSE st
    ELSE IF st[d.n1] = A /\ Less(d.r, <<1, 3>>) THEN Set(st, d.n1, U)
         ELSE IF st[d.n1] = U
         THEN IF Less(d.r, <<1, 3>>) THEN Set(st, d.n1, A)
              ELSE IF Less(d.r, <<2, 3>>) THEN Set(st, d.n1, M)
              ELSE st
         ELSE IF st[d.n1] = M /\ Less(d.r, <<1, 3>>) THEN Set(st, d.n1, U)
         ELSE st

\* Mutant of neighbour_limited: an M recruiter methylates an A target.
neighbour_limited_direct(st, F_, d) ==
    IF Less(d.r0, alpha(F_))
    THEN IF st[d.n2] # U
         THEN IF st[d.n2] = M
              THEN IF st[d.n1] = A THEN Set(st, d.n1, M)
                   ELSE IF st[d.n1] = U THEN Set(st, d.n1, M)
                   ELSE st
              ELSE IF st[d.n2] = A
              THEN IF st[d.n1] = M THEN Set(st, d.n1, U)
                   ELSE IF st[d.n1] = U THEN Set(st, d.n1, A)
                   ELSE st
              ELSE st
         ELSE st
    ELSE standard(st, 0, d.call)

\* Model B: neighbor-limited recruitment; d.n2 is neighbour_n2(d.n1, d.side)
neighbour_limited(st, F_, d) ==
    IF Less(d.r0, alpha(F_))
    THEN IF st[d.n2] # U
         THEN IF st[d.n2] = M
              THEN IF st[d.n1] = A THEN Set(st, d.n1, U)
                   ELSE IF st[d.n1] = U THEN Set(st, d.n1, M)
                   ELSE st
              ELSE IF st[d.n2] = A
              THEN IF st[d.n1] = M THEN Set(st, d.n1, U)
                   ELSE IF st[d.n1] = U THEN Set(st, d.n1, A)
                   ELSE st
              ELSE st
         ELSE st
    ELSE standard(st, 0, d.call)

\* Mutant of power_law_contact: an M recruiter's demodification is written
\* at the recruiter's index.
power_law_contact_n2(st, F_, d) ==
    IF Less(d.r0, alpha(F_))
    THEN IF st[d.n2] # U
         THEN IF st[d.n2] = M
              THEN IF st[d.n1] = A THEN Set(st, d.n2, U)
                   ELSE IF st[d.n1] = U THEN Set(st, d.n1, M)
                   ELSE st
              ELSE IF st[d.n2] = A
              THEN IF st[d.n1] = M THEN Set(st, d.n1, U)
                   ELSE IF st[d.n1] = U THEN Set(st, d.n1, A)
                   ELSE st
              ELSE st
         ELSE st
    ELSE standard(st, 0, d.call)

\* Model C: power-law contact; d.n2 is power_law_n2(d.n1, d.d, d.side)
power_law_contact(st, F_, d) ==
    IF Less(d.r0, alpha(F_))
    THEN IF st[d.n2] # U
         THEN IF st[d.n2] = M
              THEN IF st[d.n1] = A THEN Set(st, d.n1, U)
                   ELSE IF st[d.n1] = U THEN Set(st, d.n1, M)
                   ELSE st
              ELSE IF st[d.n2] = A
              THEN IF st[d.n1] = M THEN Set(st, d.n1, U)
                   ELSE IF st[d.n1] = U THEN Set(st, d.n1, A)
                   ELSE st
              ELSE st
         ELSE st
    ELSE standard(st, 0, d.call)

----------------------------------------------------------------------------
\* Spec: a run of ticks of one step function on one array.

GlobalFns == {"step", "bistability_step", "standard"}
CoopFns == {"step_coop_A", "step_coop_B", "step_coop_C"}
NoncoopFns == {"step_noncoop_A", "step_noncoop_B", "step_noncoop_C"}
SpatialFns == {"neighbour_limited", "power_law_contact"}
StepFns == GlobalFns \cup CoopFns \cup NoncoopFns \cup SpatialFns

\* No call is running.
NoFrame == [branch |-> "none"]

\* Nothing has been returned.
NoResult == [kind |-> "none"]

\* current_state = None; current_duration = 0; durations = []
LifetimeStart ==
    /\ current_state = "None"
    /\ current_duration = 0
    /\ durations = <<>>
    /\ labels = <<>>

\* gap_sum = 0
GapStart ==
    /\ gap_sum = <<0, 1>>
    /\ hist = <<>>

\* No run has started: G_vals_all_runs = [], hist_total = Counter()
NoTicks == [eq |-> 0, meas |-> 0, sampled |-> 0]

NoConfig == [script |-> "none"]

RunStart ==
    /\ num_runs = 0
    /\ run = 0
    /\ G_vals = <<>>
    /\ G_vals_all_runs = <<>>
    /\ hist_total = <<>>
    /\ returned = <<>>
    /\ seen = NoTicks
    /\ config = NoConfig

\* state = np.random.choice([A, U, M], size=N)
Init ==
    /\ state \in Arrays
    /\ prev = state
    /\ fn \in StepFns
    /\ F \in 0 .. MaxF
    /\ frame = NoFrame
    /\ pc = "idle"
    /\ Tmax = 0
    /\ Teq = 0
    /\ t = 0
    /\ LifetimeStart
    /\ GapStart
    /\ RunStart
    /\ result = NoResult

\* The run uses the step function name and no call is running.
Ready(name) == pc = "idle" /\ fn = name

\* A call with draws d returns the array new.
Call(d, new) ==
    /\ prev' = state
    /\ state' = new
    /\ frame' = d
    /\ pc' = "stepped"
    /\ UNCHANGED <<runVars, fn, F, Tmax, Teq, t, lifeVars, gapVars, result>>

Tick_step ==
    /\ Ready("step")
    /\ \E d \in GlobalDraws[F] : Call(d, step(state, F, d))

Tick_bistability_step ==
    /\ Ready("bistability_step")
    /\ \E d \in GlobalDraws[F] :
        Call(d, bistability_step(state, F, d))

Tick_step_coop_A ==
    /\ Ready("step_coop_A")
    /\ \E d \in CoopDraws[F] : Call(d, step_coop_A(state, F, d))

Tick_step_noncoop_A ==
    /\ Ready("step_noncoop_A")
    /\ \E d \in NoncoopDraws[F] :
        Call(d, step_noncoop_A(state, F, d))

Tick_step_coop_B ==
    /\ Ready("step_coop_B")
    /\ \E d \in CoopDraws[F] : Call(d, step_coop_B(state, F, d))

Tick_step_noncoop_B ==
    /\ Ready("step_noncoop_B")
    /\ \E d \in NoncoopDraws[F] :
        Call(d, step_noncoop_B(state, F, d))

Tick_step_coop_C ==
    /\ Ready("step_coop_C")
    /\ \E d \in CoopDraws[F] : Call(d, step_coop_C(state, F, d))

Tick_step_noncoop_C ==
    /\ Ready("step_noncoop_C")
    /\ \E d \in NoncoopDraws[F] :
        Call(d, step_noncoop_C(state, F, d))

Tick_standard ==
    /\ Ready("standard")
    /\ \E d \in GlobalDraws[F] : Call(d, standard(state, F, d))

Tick_neighbour_limited ==
    /\ Ready("neighbour_limited")
    /\ \E d \in NeighbourDraws[F] :
        Call(d, neighbour_limited(state, F, d))

Tick_power_law_contact ==
    /\ Ready("power_law_contact")
    /\ \E d \in PowerLawDraws[F] :
        Call(d, power_law_contact(state, F, d))

\* state = step_fn(state, F): the call has returned and its locals are gone.
Return ==
    /\ pc = "stepped"
    /\ pc' = "idle"
    /\ frame' = NoFrame
    /\ prev' = state
    /\ UNCHANGED <<runVars, state, fn, F, Tmax, Teq, t, lifeVars, gapVars, result>>

Next ==
    \/ Tick_step
    \/ Tick_bistability_step
    \/ Tick_step_coop_A
    \/ Tick_step_noncoop_A
    \/ Tick_step_coop_B
    \/ Tick_step_noncoop_B
    \/ Tick_step_coop_C
    \/ Tick_step_noncoop_C
    \/ Tick_standard
    \/ Tick_neighbour_limited
    \/ Tick_power_law_contact
    \/ Return

Spec == Init /\ [][Next]_vars

----------------------------------------------------------------------------
\* Fractions in lowest terms, for the float sums and quotients.

RECURSIVE GCD(_, _)
GCD(a, b) == IF b = 0 THEN a ELSE GCD(b, a % b)

Norm(x) == LET g == GCD(x[1], x[2]) IN <<x[1] \div g, x[2] \div g>>

\* x + y
FracAdd(x, y) == Norm(<<x[1] * y[2] + y[1] * x[2], x[2] * y[2]>>)

Abs(x) == IF x < 0 THEN 0 - x ELSE x

RECURSIVE SeqSum(_)
SeqSum(q) == IF q = <<>> THEN 0 ELSE q[1] + SeqSum(Tail(q))

\* np.sum(state == m)
CountOf(st, m) == Cardinality({i \in Sites : st[i] = m})

\* The arrays one call step(st, F_) can return.
StepResults(st, F_) == {step(st, F_, d) : d \in GlobalDraws[F_]}

----------------------------------------------------------------------------
\* SpecLifetime: one call calculate_lifetime(F).

\* Mutant of Label: the factor of the rule is 0.5.
Label_half(st) ==
    LET M1 == CountOf(st, M)
        A1 == CountOf(st, A)
    IN  IF 2 * M1 > A1 THEN "M"
        ELSE IF 2 * A1 > M1 THEN "A"
        ELSE "None"

\* Apply 1.5x rule to detect dominant state; M1 > 1.5 * A1 is 2*M1 > 3*A1
Label(st) ==
    LET M1 == CountOf(st, M)
        A1 == CountOf(st, A)
    IN  IF 2 * M1 > 3 * A1 THEN "M"
        ELSE IF 2 * A1 > 3 * M1 THEN "A"
        ELSE "None"

\* Mutant of Track: a new run is opened with duration 0.
Track_from_zero(label, cs, cd, ds) ==
    IF label = cs
    THEN [current_state |-> cs, current_duration |-> cd + 1, durations |-> ds]
    ELSE [current_state |-> label,
          current_duration |-> 0,
          durations |-> IF cs # "None" THEN Append(ds, cd) ELSE ds]

\* Mutant of Track: the length of a null run is recorded too.
Track_null_recorded(label, cs, cd, ds) ==
    IF label = cs
    THEN [current_state |-> cs, current_duration |-> cd + 1, durations |-> ds]
    ELSE [current_state |-> label,
          current_duration |-> 1,
          durations |-> IF cd > 0 THEN Append(ds, cd) ELSE ds]

\* Track how long the system remains in the same state
Track(label, cs, cd, ds) ==
    IF label = cs
    THEN [current_state |-> cs, current_duration |-> cd + 1, durations |-> ds]
    ELSE [current_state |-> label,
          current_duration |-> 1,
          durations |-> IF cs # "None" THEN Append(ds, cd) ELSE ds]

\* Mutant of Flush: the run open at the end of the trajectory is dropped.
Flush_dropped(cs, cd, ds) == ds

\* Add final duration to the list
Flush(cs, cd, ds) == IF cs # "None" THEN Append(ds, cd) ELSE ds

\* np.mean(durations) if durations else 0
Mean(ds) ==
    IF ds # <<>> THEN Norm(<<SeqSum(ds), Len(ds)>>) ELSE <<0, 1>>

\* state = np.random.choice([A, M, U], size=N)
InitLifetime ==
    /\ state \in Arrays
    /\ prev = state
    /\ fn = "step"
    /\ F \in 0 .. MaxF
    /\ frame = NoFrame
    /\ pc = "lifetime"
    /\ Tmax \in 0 .. MaxLifeTmax
    /\ Teq = 0
    /\ t = 0
    /\ LifetimeStart
    /\ GapStart
    /\ RunStart
    /\ result = NoResult

\* One pass of the loop: step, classify, track.
LifetimeTick ==
    /\ pc = "lifetime"
    /\ t < Tmax
    /\ \E s2 \in StepResults(state, F) :
        LET tr == Track(Label(s2), current_state, current_duration,
                        durations)
        IN  /\ state' = s2
            /\ prev' = s2
            /\ current_state' = tr.current_state
            /\ current_duration' = tr.current_duration
            /\ durations' = tr.durations
            /\ labels' = Append(labels, Label(s2))
    /\ t' = t + 1
    /\ UNCHANGED <<runVars, fn, F, frame, pc, Tmax, Teq, gapVars, result>>

\* The loop is over: flush the open run and return the mean.
LifetimeReturn ==
    /\ pc = "lifetime"
    /\ t = Tmax
    /\ durations' = Flush(current_state, current_duration, durations)
    /\ result' = [kind |-> "value", value |-> Mean(durations')]
    /\ pc' = "done"
    /\ UNCHANGED <<runVars, state, prev, fn, F, frame, Tmax, Teq, t, current_state,
                   current_duration, labels, gapVars>>

NextLifetime == LifetimeTick \/ LifetimeReturn

SpecLifetime == InitLifetime /\ [][NextLifetime]_vars

----------------------------------------------------------------------------
\* SpecLabels: the run-length tracking of calculate_lifetime over an
\* arbitrary label sequence.  The label of each tick is an input here: the
\* trajectories of step produce some of these sequences, not all.

Labels == {"M", "A", "None"}

InitLabels ==
    /\ state = [i \in Sites |-> U]
    /\ prev = state
    /\ fn = "step"
    /\ F = 0
    /\ frame = NoFrame
    /\ pc = "labels"
    /\ Tmax \in 0 .. MaxTmax
    /\ Teq = 0
    /\ t = 0
    /\ LifetimeStart
    /\ GapStart
    /\ RunStart
    /\ result = NoResult

\* One pass of the loop for a tick labelled label.
LabelsTick ==
    /\ pc = "labels"
    /\ t < Tmax
    /\ \E label \in Labels :
        LET tr == Track(label, current_state, current_duration, durations)
        IN  /\ current_state' = tr.current_state
            /\ current_duration' = tr.current_duration
            /\ durations' = tr.durations
            /\ labels' = Append(labels, label)
    /\ t' = t + 1
    /\ UNCHANGED <<runVars, tickVars, Tmax, Teq, gapVars, result>>

\* The loop is over: flush the open run and return the mean.
LabelsReturn ==
    /\ pc = "labels"
    /\ t = Tmax
    /\ durations' = Flush(current_state, current_duration, durations)
    /\ result' = [kind |-> "value", value |-> Mean(durations')]
    /\ pc' = "done"
    /\ UNCHANGED <<runVars, state, prev, fn, F, frame, Tmax, Teq, t, current_state,
                   current_duration, labels, gapVars>>

NextLabels == LabelsTick \/ LabelsReturn

SpecLabels == InitLabels /\ [][NextLabels]_vars

----------------------------------------------------------------------------
\* SpecGap: one call compute_gap_measure(F).

\* Mutant of Accumulate: the sample is (M1 - A1) / (M1 + A1), signed.
Accumulate_signed(gs, st) ==
    LET M1 == CountOf(st, M)
        A1 == CountOf(st, A)
    IN  IF M1 + A1 > 0
        THEN FracAdd(gs, <<M1 - A1, M1 + A1>>)
        ELSE gs

\* if M1 + A1 > 0: gap_sum += np.abs(M1 - A1) / (M1 + A1)
Accumulate(gs, st) ==
    LET M1 == CountOf(st, M)
        A1 == CountOf(st, A)
    IN  IF M1 + A1 > 0
        THEN FracAdd(gs, <<Abs(M1 - A1), M1 + A1>>)
        ELSE gs

\* return gap_sum / Tmax; gap_sum is still the int 0 when Tmax is 0, and a
\* negative Tmax divides like any other number
GapResult(gs, Tmax_) ==
    IF Tmax_ = 0
    THEN [kind |-> "ZeroDivisionError"]
    ELSE IF Tmax_ > 0
    THEN [kind |-> "value", value |-> Norm(<<gs[1], gs[2] * Tmax_>>)]
    ELSE [kind |-> "value",
          value |-> Norm(<<0 - gs[1], gs[2] * (0 - Tmax_)>>)]

\* The passes of a loop over range(n): none when n is negative
Passes(n) == IF n < 0 THEN 0 ELSE n

\* <<M1, A1>> of an array
Counts(st) == <<CountOf(st, M), CountOf(st, A)>>

\* state = np.random.choice([A,M,U], size=N); gap_sum = 0
InitGap ==
    /\ state \in Arrays
    /\ prev = state
    /\ fn = "step"
    /\ F \in 0 .. MaxF
    /\ frame = NoFrame
    /\ pc = "gap"
    /\ Tmax \in 0 .. MaxGapTmax
    /\ Teq \in 0 .. MaxTeq
    /\ t = 0
    /\ LifetimeStart
    /\ GapStart
    /\ RunStart
    /\ result = NoResult

\* for t in range(Teq): state = step(state, F)
GapEquilibrate ==
    /\ pc = "gap"
    /\ t < Passes(Teq)
    /\ \E s2 \in StepResults(state, F) :
        /\ state' = s2
        /\ prev' = s2
        /\ hist' = Append(hist, Counts(s2))
    /\ t' = t + 1
    /\ UNCHANGED <<runVars, fn, F, frame, pc, Tmax, Teq, lifeVars, gap_sum, result>>

\* for _ in range(Tmax): step, count, accumulate
GapMeasure ==
    /\ pc = "gap"
    /\ Passes(Teq) <= t
    /\ t < Passes(Teq) + Passes(Tmax)
    /\ \E s2 \in StepResults(state, F) :
        /\ state' = s2
        /\ prev' = s2
        /\ gap_sum' = Accumulate(gap_sum, s2)
        /\ hist' = Append(hist, Counts(s2))
    /\ t' = t + 1
    /\ UNCHANGED <<runVars, fn, F, frame, pc, Tmax, Teq, lifeVars, result>>

\* return gap_sum / Tmax
GapReturn ==
    /\ pc = "gap"
    /\ t = Passes(Teq) + Passes(Tmax)
    /\ result' = GapResult(gap_sum, Tmax)
    /\ pc' = "done"
    /\ UNCHANGED <<runVars, state, prev, fn, F, frame, Tmax, Teq, t, lifeVars,
                   gapVars>>

NextGap == GapEquilibrate \/ GapMeasure \/ GapReturn

SpecGap == InitGap /\ [][NextGap]_vars

----------------------------------------------------------------------------
\* SpecInvalid: compute_gap_measure(F) run with a negative Tmax or Teq.  The
\* function reads the module-level Tmax and Teq and checks neither.

InitInvalid ==
    /\ state \in Arrays
    /\ prev = state
    /\ fn = "step"
    /\ F \in 0 .. MaxF
    /\ frame = NoFrame
    /\ pc = "gap"
    /\ Tmax \in (0 - 1) .. MaxGapTmax
    /\ Teq \in (0 - 1) .. MaxTeq
    /\ Tmax < 0 \/ Teq < 0
    /\ t = 0
    /\ LifetimeStart
    /\ GapStart
    /\ RunStart
    /\ result = NoResult

SpecInvalid == InitInvalid /\ [][NextGap]_vars

----------------------------------------------------------------------------
\* SpecAvg: one call run_simulation_avg(step_fn, F, Tmax, num_runs) made by
\* the sweep loop of coop_noncoop.py or of spatial_recuit.py.

\* Largest Tmax of the call: with N + 1 ticks a run reaches i = 0 and i = N.
MaxRunTmax == N + 1
\* Largest module-level num_runs (10 in the scripts), scaled down.
MaxRuns == 2
\* The default of the parameter num_runs (10), scaled down.
DefaultRuns == 2

\* The arrays one call step_fn(st, F_) can return, step_fn named name.
Results(name, st, F_) ==
    CASE name = "step" -> {step(st, F_, d) : d \in GlobalDraws[F_]}
      [] name = "bistability_step" ->
            {bistability_step(st, F_, d) : d \in GlobalDraws[F_]}
      [] name = "step_coop_A" -> {step_coop_A(st, F_, d) : d \in CoopDraws[F_]}
      [] name = "step_noncoop_A" ->
            {step_noncoop_A(st, F_, d) : d \in NoncoopDraws[F_]}
      [] name = "step_coop_B" -> {step_coop_B(st, F_, d) : d \in CoopDraws[F_]}
      [] name = "step_noncoop_B" ->
            {step_noncoop_B(st, F_, d) : d \in NoncoopDraws[F_]}
      [] name = "step_coop_C" -> {step_coop_C(st, F_, d) : d \in CoopDraws[F_]}
      [] name = "step_noncoop_C" ->
            {step_noncoop_C(st, F_, d) : d \in NoncoopDraws[F_]}
      [] name = "standard" -> {standard(st, F_, d) : d \in GlobalDraws[F_]}
      [] name = "neighbour_limited" ->
            {neighbour_limited(st, F_, d) : d \in NeighbourDraws[F_]}
      [] name = "power_law_contact" ->
            {power_law_contact(st, F_, d) : d \in PowerLawDraws[F_]}

\* The sum of a list of fractions
RECURSIVE FracSum(_)
FracSum(q) == IF q = <<>> THEN <<0, 1>> ELSE FracAdd(q[1], FracSum(Tail(q)))

\* np.mean of a list of fractions: nan for the empty list
NpMean(q) ==
    IF q = <<>>
    THEN [kind |-> "nan"]
    ELSE [kind |-> "value",
          value |-> Norm(<<FracSum(q)[1], FracSum(q)[2] * Len(q)>>)]

\* Mutant of Sample: the sample is (m - a) / (m + a), signed.
Sample_signed(gv, st) ==
    LET m == CountOf(st, M)
        a == CountOf(st, A)
    IN  IF (m + a) > 0
        THEN Append(gv, Norm(<<m - a, m + a>>))
        ELSE gv

\* if (m + a) > 0: G_vals.append(abs(m - a) / (m + a))
Sample(gv, st) ==
    LET m == CountOf(st, M)
        a == CountOf(st, A)
    IN  IF (m + a) > 0
        THEN Append(gv, Norm(<<Abs(m - a), m + a>>))
        ELSE gv

\* Mutant of Measure: every tick is sampled.
Measure_every_tick(gv, i, st) == Sample(gv, st)

\* if i % N == 0: count and sample
Measure(gv, i, st) == IF i % N = 0 THEN Sample(gv, st) ELSE gv

\* Mutant of EndRun: the run's value is the sum of its samples over Tmax.
EndRun_over_Tmax(gv, all, Tmax_) ==
    IF gv # <<>>
    THEN Append(all, Norm(<<FracSum(gv)[1], FracSum(gv)[2] * Tmax_>>))
    ELSE all

\* if G_vals: G_vals_all_runs.append(np.mean(G_vals))
EndRun(gv, all, Tmax_) ==
    IF gv # <<>> THEN Append(all, NpMean(gv).value) ELSE all

\* Step functions each sweep passes: the first two calls of coop_noncoop.py,
\* the three calls of spatial_recuit.py.
SweepFns(script) ==
    IF script = "coop_noncoop"
    THEN {"step_coop_A", "step_noncoop_A"}
    ELSE {"standard", "neighbour_limited", "power_law_contact"}

\* The call of the sweep loop.  coop_noncoop.py passes
\* (step_fn, F, Tmax, num_runs); spatial_recuit.py passes
\* (step_fn, F, num_runs), so that the parameter Tmax is bound to the
\* module's num_runs and the parameter num_runs keeps its default.
InitAvg ==
    /\ state = [i \in Sites |-> U]
    /\ prev = state
    /\ F \in 1 .. MaxF
    /\ frame = NoFrame
    /\ pc = "avg"
    /\ Teq \in 0 .. MaxTeq
    /\ t = 0
    /\ LifetimeStart
    /\ GapStart
    /\ run = 0
    /\ G_vals = <<>>
    /\ G_vals_all_runs = <<>>
    /\ hist_total = <<>>
    /\ returned = <<>>
    /\ seen = NoTicks
    /\ result = NoResult
    /\ \E script \in {"coop_noncoop", "spatial_recuit"} :
        /\ fn \in SweepFns(script)
        /\ \E T \in 0 .. MaxRunTmax, R \in 0 .. MaxRuns :
            /\ T * R <= MaxRunTmax
            /\ config = [script |-> script, Tmax |-> T, num_runs |-> R]
            /\ IF script = "coop_noncoop"
               THEN Tmax = T /\ num_runs = R
               ELSE Tmax = R /\ num_runs = DefaultRuns

\* for _ in range(num_runs): state = np.random.choice([A, U, M], size=N)
AvgStartRun ==
    /\ pc = "avg"
    /\ run < num_runs
    /\ state' \in Arrays
    /\ prev' = state'
    /\ returned' = state'
    /\ t' = 0
    /\ G_vals' = <<>>
    /\ seen' = NoTicks
    /\ pc' = "avg_run"
    /\ UNCHANGED <<fn, F, frame, Tmax, Teq, lifeVars, gapVars, result,
                   num_runs, run, G_vals_all_runs, hist_total, config>>

\* for _ in range(Teq): state = step_fn(state, F)
AvgEquilibrate ==
    /\ pc = "avg_run"
    /\ t < Teq
    /\ \E s2 \in Results(fn, state, F) :
        /\ state' = s2
        /\ prev' = s2
        /\ returned' = s2
    /\ t' = t + 1
    /\ seen' = [seen EXCEPT !.eq = @ + 1]
    /\ UNCHANGED <<fn, F, frame, pc, Tmax, Teq, lifeVars, gapVars, result,
                   num_runs, run, G_vals, G_vals_all_runs, hist_total,
                   config>>

\* for i in range(Tmax): step, and sample when i % N == 0
AvgMeasure ==
    /\ pc = "avg_run"
    /\ Teq <= t
    /\ t < Teq + Tmax
    /\ \E s2 \in Results(fn, state, F) :
        /\ state' = s2
        /\ prev' = s2
        /\ returned' = s2
        /\ G_vals' = Measure(G_vals, t - Teq, s2)
        /\ seen' = [seen EXCEPT
                        !.meas = @ + 1,
                        !.sampled = @ + IF /\ (t - Teq) % N = 0
                                           /\ CountOf(s2, M) + CountOf(s2, A) > 0
                                        THEN 1 ELSE 0]
    /\ t' = t + 1
    /\ UNCHANGED <<fn, F, frame, pc, Tmax, Teq, lifeVars, gapVars, result,
                   num_runs, run, G_vals_all_runs, hist_total, config>>

\* The run is over: record its mean when it has a sample.
AvgEndRun ==
    /\ pc = "avg_run"
    /\ t = Teq + Tmax
    /\ G_vals_all_runs' = EndRun(G_vals, G_vals_all_runs, Tmax)
    /\ run' = run + 1
    /\ pc' = "avg"
    /\ UNCHANGED <<state, prev, fn, F, frame, Tmax, Teq, t, lifeVars,
                   gapVars, result, num_runs, G_vals, hist_total, returned,
                   seen, config>>

\* return np.mean(G_vals_all_runs)
AvgReturn ==
    /\ pc = "avg"
    /\ run = num_runs
    /\ result' = NpMean(G_vals_all_runs)
    /\ pc' = "done"
    /\ UNCHANGED <<state, prev, fn, F, frame, Tmax, Teq, t, lifeVars,
                   gapVars, runVars>>

NextAvg ==
    \/ AvgStartRun
    \/ AvgEquilibrate
    \/ AvgMeasure
    \/ AvgEndRun
    \/ AvgReturn

SpecAvg == InitAvg /\ [][NextAvg]_vars

----------------------------------------------------------------------------
\* SpecDist: one call simulate_distribution(step_fn, F, runs) of
\* pd_coop_noncoop.py or pd_spatial_recrut.py, and the normalization of the
\* histogram it returns.

\* delta = m - a
Delta(st) == CountOf(st, M) - CountOf(st, A)

\* hist_total[delta] += 1 on a Counter: a missing key counts from 0
Inc(h, delta) ==
    [k \in DOMAIN h \cup {delta} |->
        IF k \in DOMAIN h
        THEN IF k = delta THEN h[k] + 1 ELSE h[k]
        ELSE 1]

\* Mutant of Tally: every tick of the main loop is sampled.
Tally_every_tick(h, i, st) == Inc(h, Delta(st))

\* if t % N == 0: hist_total[delta] += 1
Tally(h, i, st) == IF i % N = 0 THEN Inc(h, Delta(st)) ELSE h

\* Mutant of Rebind: the call's result is dropped, state keeps the array
\* that was copied.
Rebind_dropped(st, ret) == st

\* state = step_fn(state.copy(), F): the call mutates the copy and returns
\* it, and state is bound to the array returned
Rebind(st, ret) == ret

\* sorted(hist.keys()) of the keys ks
RECURSIVE Sorted(_)
Sorted(ks) ==
    IF ks = {}
    THEN <<>>
    ELSE LET lo == CHOOSE k \in ks : \A j \in ks : k <= j
         IN  <<lo>> \o Sorted(ks \ {lo})

\* y.sum() of the counts of a histogram
RECURSIVE Total(_)
Total(h) ==
    IF DOMAIN h = {}
    THEN 0
    ELSE LET k == CHOOSE j \in DOMAIN h : TRUE
         IN  h[k] + Total([j \in DOMAIN h \ {k} |-> h[j]])

\* Mutant of get_normalized: the counts are divided by the number of keys.
get_normalized_by_keys(h) ==
    LET x == Sorted(DOMAIN h)
    IN  [kind |-> "value",
         x |-> x,
         divisor |-> Len(x),
         y |-> [i \in 1 .. Len(x) |-> Norm(<<h[x[i]], Len(x)>>)]]

\* x = sorted(hist.keys()); y = counts as floats; y /= y.sum(): each
\* element of y is divided by the sum, and an empty y has no element
get_normalized(h) ==
    LET x == Sorted(DOMAIN h)
    IN  [kind |-> "value",
         x |-> x,
         divisor |-> Total(h),
         y |-> [i \in 1 .. Len(x) |-> Norm(<<h[x[i]], Total(h)>>)]]

\* The step functions the two scripts pass first.
DistFns == {"step_coop_A", "step_noncoop_A", "standard"}

\* hist_total = Counter()
InitDist ==
    /\ state = [i \in Sites |-> U]
    /\ prev = state
    /\ fn \in DistFns
    /\ F \in 1 .. MaxF
    /\ frame = NoFrame
    /\ pc = "dist"
    /\ Teq \in 0 .. MaxTeq
    /\ t = 0
    /\ LifetimeStart
    /\ GapStart
    /\ run = 0
    /\ G_vals = <<>>
    /\ G_vals_all_runs = <<>>
    /\ hist_total = <<>>
    /\ returned = <<>>
    /\ seen = NoTicks
    /\ config = [script |-> "pd"]
    /\ result = NoResult
    /\ \E T \in 0 .. MaxRunTmax, R \in 0 .. MaxRuns :
        /\ T * R <= MaxRunTmax
        /\ Tmax = T
        /\ num_runs = R

\* for _ in range(runs): state = np.random.choice([A, U, M], size=N)
DistStartRun ==
    /\ pc = "dist"
    /\ run < num_runs
    /\ state' \in Arrays
    /\ prev' = state'
    /\ returned' = state'
    /\ t' = 0
    /\ seen' = NoTicks
    /\ pc' = "dist_run"
    /\ UNCHANGED <<fn, F, frame, Tmax, Teq, lifeVars, gapVars, result,
                   num_runs, run, G_vals, G_vals_all_runs, hist_total,
                   config>>

\* for _ in range(Teq): state = step_fn(state.copy(), F)
DistEquilibrate ==
    /\ pc = "dist_run"
    /\ t < Teq
    /\ \E s2 \in Results(fn, state, F) :
        /\ state' = Rebind(state, s2)
        /\ prev' = state
        /\ returned' = s2
    /\ t' = t + 1
    /\ seen' = [seen EXCEPT !.eq = @ + 1]
    /\ UNCHANGED <<fn, F, frame, pc, Tmax, Teq, lifeVars, gapVars, result,
                   num_runs, run, G_vals, G_vals_all_runs, hist_total,
                   config>>

\* for t in range(Tmax): step, and count delta when t % N == 0
DistMeasure ==
    /\ pc = "dist_run"
    /\ Teq <= t
    /\ t < Teq + Tmax
    /\ \E s2 \in Results(fn, state, F) :
        /\ state' = s2
        /\ prev' = s2
        /\ returned' = s2
        /\ hist_total' = Tally(hist_total, t - Teq, s2)
    /\ t' = t + 1
    /\ seen' = [seen EXCEPT
                    !.meas = @ + 1,
                    !.sampled = @ + IF (t - Teq) % N = 0 THEN 1 ELSE 0]
    /\ UNCHANGED <<fn, F, frame, pc, Tmax, Teq, lifeVars, gapVars, result,
                   num_runs, run, G_vals, G_vals_all_runs, config>>

\* The loops of the run are over.
DistEndRun ==
    /\ pc = "dist_run"
    /\ t = Teq + Tmax
    /\ run' = run + 1
    /\ pc' = "dist"
    /\ UNCHANGED <<state, prev, fn, F, frame, Tmax, Teq, t, lifeVars,
                   gapVars, result, num_runs, G_vals, G_vals_all_runs,
                   hist_total, returned, seen, config>>

\* return hist_total
DistReturn ==
    /\ pc = "dist"
    /\ run = num_runs
    /\ pc' = "returned"
    /\ UNCHANGED <<state, prev, fn, F, frame, Tmax, Teq, t, lifeVars,
                   gapVars, result, runVars>>

\* plot_distribution, plot_distributions: the histogram is normalized
Normalize ==
    /\ pc = "returned"
    /\ result' = get_normalized(hist_total)
    /\ pc' = "done"
    /\ UNCHANGED <<state, prev, fn, F, frame, Tmax, Teq, t, lifeVars,
                   gapVars, runVars>>

NextDist ==
    \/ DistStartRun
    \/ DistEquilibrate
    \/ DistMeasure
    \/ DistEndRun
    \/ DistReturn
    \/ Normalize

SpecDist == InitDist /\ [][NextDist]_vars

----------------------------------------------------------------------------
\* The measurement calls side by side: a behaviour is one call of one of them.

\* compute_gap_measure or run_simulation_avg
InitGaps == InitGap \/ InitAvg

NextGaps == NextGap \/ NextAvg

SpecGaps == InitGaps /\ [][NextGaps]_vars

\* calculate_lifetime, compute_gap_measure or run_simulation_avg
InitMeasure == InitLifetime \/ InitGap \/ InitAvg

NextMeasure == NextLifetime \/ NextGap \/ NextAvg

SpecMeasure == InitMeasure /\ [][NextMeasure]_vars

----------------------------------------------------------------------------
\* Vocabulary of the properties of one tick.

Stepped == pc = "stepped"
FeedbackTick == Stepped /\ frame.branch = "feedback"
NoiseTick == Stepped /\ frame.branch = "noise"

\* The noise branch was delegated to another step function.
Delegated == Stepped /\ "call" \in DOMAIN frame

\* The frame whose rule was applied to the array: the callee's when the
\* noise branch was delegated.
Applied == IF Delegated THEN frame.call ELSE frame

\* The recruiter verdict of a feedback tick is the mark m: the recruiter
\* (both recruiters, in the cooperative modes) carried m, and m is not U.
VerdictIs(m) ==
    /\ m # U
    /\ prev[frame.n2] = m
    /\ fn \in CoopFns => prev[frame.n3] = m

VerdictFires == VerdictIs(A) \/ VerdictIs(M)

FullFns ==
    {"step", "bistability_step", "step_coop_A", "step_noncoop_A",
     "standard", "neighbour_limited", "power_law_contact"}
ModifyOnlyFns == {"step_coop_B", "step_noncoop_B"}
DemodifyOnlyFns == {"step_coop_C", "step_noncoop_C"}

\* C1: after any sequence of ticks of any step function the array has
\* exactly N entries, indexed 0..N-1, and every entry is one of A, U, M.
C1_ArrayShape ==
    /\ DOMAIN state = Sites
    /\ Cardinality(DOMAIN state) = N
    /\ \A i \in DOMAIN state : state[i] \in {A, U, M}

\* A tick that changed a mark has returned.
C1_Witness == Stepped /\ state # prev

\* C2: one tick changes the mark of at most one site: every index other
\* than the index whose rule was applied holds the mark it held before the
\* tick, also when the noise branch was delegated.
C2_OneSite ==
    Stepped => \A j \in Sites : j # Applied.n1 => state[j] = prev[j]

\* A delegated noise tick changed the callee's target, which is not the
\* index the wrapper drew.
C2_Witness ==
    /\ Delegated
    /\ frame.call.n1 # frame.n1
    /\ state[frame.call.n1] # prev[frame.call.n1]

\* C3: in the full regime a feedback tick with verdict M maps target A to
\* U, U to M and leaves M; with verdict A it maps M to U, U to A and leaves
\* A; the target changes in no other way on a feedback tick.
C3_FullTable ==
    (FeedbackTick /\ fn \in FullFns) =>
        LET was == prev[frame.n1]
            now == state[frame.n1]
        IN  /\ VerdictIs(M) =>
                now = (IF was = A THEN U ELSE IF was = U THEN M ELSE M)
            /\ VerdictIs(A) =>
                now = (IF was = M THEN U ELSE IF was = U THEN A ELSE A)
            /\ now # was =>
                \/ VerdictIs(M) /\ <<was, now>> \in {<<A, U>>, <<U, M>>}
                \/ VerdictIs(A) /\ <<was, now>> \in {<<M, U>>, <<U, A>>}

\* Two agreeing A recruiters turned a U target into A.
C3_Witness ==
    /\ FeedbackTick
    /\ fn = "step_coop_A"
    /\ VerdictIs(A)
    /\ prev[frame.n1] = U
    /\ state[frame.n1] = A

\* C4: in the modify-only regime a feedback tick changes the target only
\* if it is U, to the recruiter's mark; an A or M target is never changed,
\* so neither the A count nor the M count decreases.
C4_ModifyOnly ==
    (FeedbackTick /\ fn \in ModifyOnlyFns) =>
        /\ \A m \in {A, M} :
            (VerdictIs(m) /\ prev[frame.n1] = U) => state[frame.n1] = m
        /\ state # prev =>
            /\ prev[frame.n1] = U
            /\ VerdictFires
            /\ state[frame.n1] = prev[frame.n2]
        /\ prev[frame.n1] \in {A, M} => state = prev
        /\ CountOf(state, A) >= CountOf(prev, A)
        /\ CountOf(state, M) >= CountOf(prev, M)

\* A single M recruiter turned a U target into M.
C4_Witness ==
    /\ FeedbackTick
    /\ fn = "step_noncoop_B"
    /\ VerdictIs(M)
    /\ prev[frame.n1] = U
    /\ state[frame.n1] = M
    /\ CountOf(state, M) = CountOf(prev, M) + 1

\* C5: in the demodify-only regime a feedback tick changes the target only
\* from A to U under verdict M or from M to U under verdict A; a U target
\* is never changed, so neither the A count nor the M count increases.
C5_DemodifyOnly ==
    (FeedbackTick /\ fn \in DemodifyOnlyFns) =>
        /\ (VerdictIs(M) /\ prev[frame.n1] = A) => state[frame.n1] = U
        /\ (VerdictIs(A) /\ prev[frame.n1] = M) => state[frame.n1] = U
        /\ state # prev =>
            \/ VerdictIs(M) /\ prev[frame.n1] = A /\ state[frame.n1] = U
            \/ VerdictIs(A) /\ prev[frame.n1] = M /\ state[frame.n1] = U
        /\ prev[frame.n1] = U => state = prev
        /\ CountOf(state, A) <= CountOf(prev, A)
        /\ CountOf(state, M) <= CountOf(prev, M)

\* Two agreeing A recruiters turned an M target into U.
C5_Witness ==
    /\ FeedbackTick
    /\ fn = "step_coop_C"
    /\ VerdictIs(A)
    /\ prev[frame.n1] = M
    /\ state[frame.n1] = U
    /\ CountOf(state, M) = CountOf(prev, M) - 1

\* C6: on a noise tick with draw r, target A becomes U iff r < 1/3; target
\* U becomes A iff r < 1/3, M iff 1/3 <= r < 2/3, and stays U otherwise;
\* target M becomes U iff r < 1/3; otherwise the target is unchanged.
C6_NoiseRule ==
    NoiseTick =>
        LET target == Applied.n1
            r == Applied.r
            below13 == 3 * r[1] < r[2]
            below23 == 3 * r[1] < 2 * r[2]
            was == prev[target]
            now == state[target]
        IN  /\ was = A => (now = U <=> below13) /\ (~below13 => now = A)
            /\ was = U =>
                /\ now = A <=> below13
                /\ now = M <=> (~below13 /\ below23)
                /\ now = U <=> ~below23
            /\ was = M => (now = U <=> below13) /\ (~below13 => now = M)

\* A noise draw in [1/3, 2/3) turned a U target into M.
C6_Witness ==
    /\ NoiseTick
    /\ ~Delegated
    /\ prev[frame.n1] = U
    /\ 3 * frame.r[1] >= frame.r[2]
    /\ 3 * frame.r[1] < 2 * frame.r[2]
    /\ state[frame.n1] = M

\* C7: on a feedback tick the array changes only if the verdict fires (one
\* non-U recruiter, or two recruiters agreeing on a non-U mark); otherwise
\* the whole array is unchanged and the tick draws no noise value and
\* makes no delegated call.
C7_NoVerdictNoChange ==
    FeedbackTick =>
        /\ state # prev => VerdictFires
        /\ ~VerdictFires =>
            /\ state = prev
            /\ "r" \notin DOMAIN frame
            /\ "call" \notin DOMAIN frame

\* step_coop_C, whose guard has no not-U test, drew two U recruiters for an
\* A target and left the array alone.
C7_Witness ==
    /\ FeedbackTick
    /\ fn = "step_coop_C"
    /\ prev[frame.n2] = U
    /\ prev[frame.n3] = U
    /\ frame.n2 # frame.n3
    /\ prev[frame.n1] = A
    /\ state = prev

----------------------------------------------------------------------------
\* Properties of the measurement calls.

\* A maximal block of equal non-null labels starts at position i of ls.
BlockStart(ls, i) ==
    /\ ls[i] # "None"
    /\ i = 1 \/ ls[i - 1] # ls[i]

\* The length of the maximal block of labels equal to ls[i] starting at i.
BlockLen(ls, i) ==
    CHOOSE k \in 1 .. (Len(ls) - i + 1) :
        /\ \A j \in i .. (i + k - 1) : ls[j] = ls[i]
        /\ i + k > Len(ls) \/ ls[i + k] # ls[i]

\* The lengths, in order, of the maximal blocks of consecutive equal
\* non-null labels of ls from position i on.
RECURSIVE BlocksFrom(_, _)
BlocksFrom(ls, i) ==
    IF i > Len(ls) THEN <<>>
    ELSE IF BlockStart(ls, i)
         THEN <<BlockLen(ls, i)>> \o BlocksFrom(ls, i + 1)
         ELSE BlocksFrom(ls, i + 1)

Blocks(ls) == BlocksFrom(ls, 1)

\* The run that is open, as the entry it would add if the trajectory ended.
OpenRun == IF current_state # "None" THEN <<current_duration>> ELSE <<>>

SpecExample == <<"M", "M", "M", "None", "A", "A", "None", "None", "M">>

\* C8: for any label sequence the recorded durations are, in order, the
\* lengths of the maximal blocks of consecutive equal non-null labels, the
\* final block included when the trajectory ends inside it; null ticks close
\* the open run and add no entry.  [M,M,M,null,A,A,null,null,M] gives
\* [3,2,1].
C8_RunLengths ==
    /\ pc \in {"labels", "lifetime"} =>
        /\ durations \o OpenRun = Blocks(labels)
        /\ (labels # <<>> /\ labels[Len(labels)] = "None") =>
            durations = Blocks(labels)
    /\ pc = "done" => durations = Blocks(labels)
    /\ (pc = "done" /\ labels = SpecExample) => durations = <<3, 2, 1>>

\* The sequence of the specification was tracked to its end.
C8_Witness ==
    /\ pc = "done"
    /\ labels = SpecExample
    /\ durations = <<3, 2, 1>>

\* C9: calculate_lifetime returns 0 exactly when no tick was labelled
\* M-dominant or A-dominant (Tmax = 0 included), otherwise the sum of the
\* recorded durations divided by their number; every recorded duration is a
\* positive integer.
C9_MeanOrZero ==
    /\ \A i \in 1 .. Len(durations) :
        durations[i] \in Nat /\ durations[i] >= 1
    /\ pc = "done" =>
        LET labelled == \E i \in 1 .. Len(labels) : labels[i] # "None"
        IN  /\ Len(labels) = Tmax
            /\ result.kind = "value"
            /\ result.value[1] = 0 <=> ~labelled
            /\ labelled =>
                /\ durations # <<>>
                /\ result.value[1] * Len(durations)
                       = SeqSum(durations) * result.value[2]

\* A trajectory of step with two runs, ended inside the second, whose mean
\* is not a whole number.
C9_Witness ==
    /\ pc = "done"
    /\ fn = "step"
    /\ Len(labels) = Tmax
    /\ Len(durations) = 2
    /\ labels[Tmax] # "None"
    /\ result.value[2] = 2

RECURSIVE Factorial(_)
Factorial(n) == IF n <= 1 THEN 1 ELSE n * Factorial(n - 1)

\* |M - A| / (M + A) of the counts c in units of 1/N!, 0 when M + A = 0.
SampleUnits(c) ==
    IF c[1] + c[2] > 0
    THEN Abs(c[1] - c[2]) * (Factorial(N) \div (c[1] + c[2]))
    ELSE 0

\* The ticks of the measurement window.
Window == (Teq + 1) .. (Teq + Tmax)

RECURSIVE WindowUnits(_)
WindowUnits(i) ==
    IF i > Teq + Tmax THEN 0 ELSE SampleUnits(hist[i]) + WindowUnits(i + 1)

\* C10: compute_gap_measure runs Teq ticks it does not sample, then Tmax
\* ticks of which each with M + A > 0 adds |M - A| / (M + A) and each with
\* M + A = 0 adds nothing, and returns the sum divided by Tmax; when every
\* sample is 1/2 the result is exactly 1/2.
C10_GapOverTmax ==
    (pc = "done" /\ Tmax > 0) =>
        /\ Len(hist) = Teq + Tmax
        /\ result.kind = "value"
        /\ result.value[1] * Factorial(N) * Tmax
               = WindowUnits(Teq + 1) * result.value[2]
        /\ (\A i \in Window :
                /\ hist[i][1] + hist[i][2] > 0
                /\ 2 * Abs(hist[i][1] - hist[i][2]) = hist[i][1] + hist[i][2])
            => result.value = <<1, 2>>

\* After an equilibration tick, a window with an all-U tick and a tick
\* with a positive sample: the sum over Tmax is not the mean of the samples.
C10_Witness ==
    /\ pc = "done"
    /\ Teq > 0
    /\ Tmax > 0
    /\ hist[1] # hist[Len(hist)]
    /\ \E i \in Window : hist[i] = <<0, 0>>
    /\ \E i \in Window : SampleUnits(hist[i]) > 0
    /\ result.value[1] > 0

\* Every tick of a window of two ticks sampled 1/2 and the call returned 1/2.
C10_HalfReached ==
    /\ pc = "done"
    /\ Tmax = 2
    /\ \A i \in Window : hist[i] \in {<<3, 1>>, <<1, 3>>}
    /\ result.value = <<1, 2>>

----------------------------------------------------------------------------
\* Properties of the gap measurements of run_simulation_avg.

\* 0 <= x <= 1 on a fraction
InUnit(x) == 0 <= x[1] /\ x[1] <= x[2]

\* The call is one of run_simulation_avg, of compute_gap_measure.
AvgCall == config # NoConfig
GapCall == config = NoConfig

\* C11: every gap sample lies in [0,1], and so does every value a gap
\* measurement returns: the samples and the per-run means of
\* run_simulation_avg, and in compute_gap_measure the running sum, which is
\* between 0 and the number of ticks measured, and the value returned.
C11_GapInUnit ==
    /\ \A k \in DOMAIN G_vals : InUnit(G_vals[k])
    /\ \A k \in DOMAIN G_vals_all_runs : InUnit(G_vals_all_runs[k])
    /\ (pc = "gap" /\ t <= Teq) => gap_sum = <<0, 1>>
    /\ (pc = "gap" /\ t > Teq) =>
            /\ 0 <= gap_sum[1]
            /\ gap_sum[1] <= (t - Teq) * gap_sum[2]
    /\ (pc = "done" /\ result.kind = "value") => InUnit(result.value)

\* A call of run_simulation_avg has returned the mean of two runs, and it
\* is neither 0 nor 1.
C11_Witness ==
    /\ pc = "done"
    /\ AvgCall
    /\ Len(G_vals_all_runs) = 2
    /\ result.kind = "value"
    /\ 0 < result.value[1]
    /\ result.value[1] < result.value[2]

\* A call of compute_gap_measure has returned a value that is neither 0
\* nor 1.
C11_GapWitness ==
    /\ pc = "done"
    /\ GapCall
    /\ result.kind = "value"
    /\ 0 < result.value[1]
    /\ result.value[1] < result.value[2]

----------------------------------------------------------------------------
\* Properties of simulate_distribution.

\* ceil(a / b)
Ceil(a, b) == (a + b - 1) \div b

\* A run of simulate_distribution is open; the call has returned.
InRun == pc = "dist_run"
Returned == pc \in {"returned", "done"} /\ config = [script |-> "pd"]

\* The main-loop indices below n that are multiples of N: 0, N, 2N, ...
Multiples(n) == {i \in 0 .. (n - 1) : i % N = 0}

\* C12: in every run M - A is counted exactly at the main-loop ticks
\* 0, N, 2N, ... below Tmax: while a run is open the histogram holds
\* ceil(Tmax/N) counts for each finished run and one for each multiple of
\* N among the ticks already made, the tick just sampled is counted under
\* its M - A, and after the call the total is runs * ceil(Tmax/N).  All runs
\* count into the one histogram, every key is in -N .. N and every count is
\* a positive integer.
C12_SampleTicks ==
    /\ \A k \in DOMAIN hist_total :
        /\ k \in (0 - N) .. N
        /\ hist_total[k] \in Nat \ {0}
    /\ (InRun /\ t <= Teq) => Total(hist_total) = run * Ceil(Tmax, N)
    /\ (InRun /\ t > Teq) =>
        /\ Total(hist_total) =
                run * Ceil(Tmax, N) + Cardinality(Multiples(t - Teq))
        /\ (t - Teq - 1) % N = 0 => Delta(state) \in DOMAIN hist_total
    /\ Returned => Total(hist_total) = num_runs * Ceil(Tmax, N)

\* Two runs have counted the same M - A: the key holds both counts.
C12_Witness ==
    /\ Returned
    /\ num_runs = 2
    /\ \E k \in DOMAIN hist_total : hist_total[k] = 2

\* One run of N + 1 ticks has been counted at ticks 0 and N.
C12_TwoSamples ==
    /\ Returned
    /\ num_runs = 1
    /\ Tmax = N + 1
    /\ Cardinality(DOMAIN hist_total) = 2

\* The histogram has been normalized.
Normalized == pc = "done" /\ config = [script |-> "pd"]

\* C13: normalization is applied only to a histogram whose total count is
\* positive, so that its divisor is never 0, and the normalized values are
\* count/total at each key and sum to 1, for every run count and Tmax >= 0.
C13_NormalizedNonEmpty ==
    Normalized =>
        /\ Total(hist_total) > 0
        /\ result.divisor > 0
        /\ Len(result.y) = Len(result.x)
        /\ \A i \in DOMAIN result.x :
            result.y[i] = Norm(<<hist_total[result.x[i]], Total(hist_total)>>)
        /\ FracSum(result.y) = <<1, 1>>

\* An empty histogram has been normalized: the divisor y.sum() was 0 and the
\* normalized values, there being none, sum to 0.
C13_EmptyNormalized ==
    /\ Normalized
    /\ hist_total = <<>>
    /\ result.divisor = 0
    /\ result.y = <<>>
    /\ FracSum(result.y) = <<0, 1>>

\* A histogram of two keys has been normalized to values that sum to 1.
C13_TwoKeysNormalized ==
    /\ Normalized
    /\ Len(result.x) = 2
    /\ result.x[1] < result.x[2]
    /\ FracSum(result.y) = <<1, 1>>

\* What holds of the normalization: of a histogram that has a count, the
\* values are count/total in the order of the keys and sum to 1.
C13_CountedCase ==
    (Normalized /\ hist_total # <<>>) =>
        /\ result.divisor = Total(hist_total)
        /\ result.divisor > 0
        /\ \A i \in DOMAIN result.x :
            result.y[i] = Norm(<<hist_total[result.x[i]], Total(hist_total)>>)
        /\ FracSum(result.y) = <<1, 1>>

----------------------------------------------------------------------------
\* Properties of the error handling.

\* The call was given a negative tick budget.
InvalidCall == Tmax < 0 \/ Teq < 0

\* C14: a call with an invalid parameter ends in an invalid-parameter error
\* raised before any tick is executed: it runs no tick, so that no site is
\* changed, and it returns no simulation result.
C14_InvalidRejected ==
    InvalidCall =>
        /\ t = 0
        /\ hist = <<>>
        /\ pc = "done" => result.kind = "InvalidParameter"

\* compute_gap_measure with Teq = -1 has run its measurement ticks, changed
\* the counts of the array, and returned a value.
C14_InvalidRan ==
    /\ InvalidCall
    /\ Teq < 0
    /\ pc = "done"
    /\ Tmax > 1
    /\ t = Tmax
    /\ Len(hist) = Tmax
    /\ hist[1] # hist[Len(hist)]
    /\ result.kind = "value"

\* compute_gap_measure with Tmax = -1 has run its equilibration ticks and
\* returned 0 / -1 as its value.
C14_NegativeTmaxValue ==
    /\ InvalidCall
    /\ Tmax < 0
    /\ pc = "done"
    /\ t > 0
    /\ result = [kind |-> "value", value |-> <<0, 1>>]

\* C15: for every allowed tick budget, Tmax = 0 and Teq = 0 included, the
\* gap and lifetime computations never divide by zero: every call of
\* compute_gap_measure, calculate_lifetime and run_simulation_avg returns a
\* defined number, whatever the trajectory.
C15_DefinedValue ==
    pc = "done" => result.kind = "value"

\* compute_gap_measure with Tmax = 0 has ended in gap_sum / Tmax, 0 / 0.
C15_GapZeroDivision ==
    /\ pc = "done"
    /\ GapCall
    /\ Tmax = 0
    /\ gap_sum = <<0, 1>>
    /\ result = [kind |-> "ZeroDivisionError"]

\* run_simulation_avg has sampled runs in which M + A was 0 at every
\* sampled tick, and returned np.mean([]), nan.
C15_AvgNan ==
    /\ pc = "done"
    /\ AvgCall
    /\ num_runs > 0
    /\ Tmax > 0
    /\ G_vals_all_runs = <<>>
    /\ result = [kind |-> "nan"]

\* What holds: calculate_lifetime returns a number on every trajectory, 0
\* when no run was recorded.
C15_LifetimeDefined ==
    (pc = "done" /\ fn = "step" /\ Len(labels) = Tmax /\ GapCall /\ hist = <<>>
        /\ Tmax > 0) =>
        /\ result.kind = "value"
        /\ durations = <<>> => result.value = <<0, 1>>

----------------------------------------------------------------------------
\* Properties of the noise branch across the step functions.

\* The draws of the noise branch that was applied, as a call of its own.
NoiseDraws == [branch |-> "noise", n1 |-> Applied.n1, r0 |-> frame.r0,
               r |-> Applied.r]

\* The same draws made through a function that delegates its noise branch,
\* the function itself having drawn the index j.
WrappedNoiseDraws(j) == [branch |-> "noise", n1 |-> j, r0 |-> frame.r0,
                         call |-> NoiseDraws]

\* C16: the noise sub-rule is one relation in every step function, whatever
\* the recruiter mode and the regime.  When a tick of any of them lands on
\* noise, with target index i and draw r, the array it returns is the array
\* the noise branch of step returns for the same array, i and r; and on
\* every array, i and r that step meets, the noise branch of each of the
\* other ten functions returns what step returned.
C16_SameNoise ==
    /\ NoiseTick => step(prev, F, NoiseDraws) = state
    /\ (NoiseTick /\ fn = "step") =>
        /\ bistability_step(prev, F, NoiseDraws) = state
        /\ step_coop_A(prev, F, NoiseDraws) = state
        /\ step_coop_B(prev, F, NoiseDraws) = state
        /\ step_coop_C(prev, F, NoiseDraws) = state
        /\ standard(prev, F, NoiseDraws) = state
        /\ \A j \in Sites :
            /\ step_noncoop_A(prev, F, WrappedNoiseDraws(j)) = state
            /\ step_noncoop_B(prev, F, WrappedNoiseDraws(j)) = state
            /\ step_noncoop_C(prev, F, WrappedNoiseDraws(j)) = state
            /\ neighbour_limited(prev, F, WrappedNoiseDraws(j)) = state
            /\ power_law_contact(prev, F, WrappedNoiseDraws(j)) = state

\* The noise branch of the demodify-only non-cooperative function, which
\* it delegates, methylated a U target.
C16_Witness ==
    /\ NoiseTick
    /\ fn = "step_noncoop_C"
    /\ F = MaxF
    /\ prev[Applied.n1] = U
    /\ state[Applied.n1] = M

\* The noise branch run on the index the tick drew first, with the draw r
\* that was used.
NoiseAtOwnTarget == [branch |-> "noise", n1 |-> frame.n1, r0 |-> frame.r0,
                     r |-> Applied.r]

\* C17: when the top-level coin of a tick lands on noise, the noise sub-rule
\* is applied to state[n1], n1 being the target index drawn at the start of
\* that tick, in every step function, those that delegate their noise
\* branch included: that site takes the mark the rule gives it and no other
\* site changes.
C17_NoiseAtDrawnTarget ==
    NoiseTick =>
        /\ Applied.n1 = frame.n1
        /\ \A j \in Sites : j # frame.n1 => state[j] = prev[j]
        /\ state = step(prev, F, NoiseAtOwnTarget)

\* neighbour_limited drew an A target and landed on noise; standard, called
\* for the noise, drew another index and r < 1/3 and demodified that one,
\* and the A target the tick had drawn kept its mark.
C17_FreshTarget ==
    /\ NoiseTick
    /\ fn = "neighbour_limited"
    /\ frame.call.n1 # frame.n1
    /\ prev[frame.n1] = A
    /\ Less(frame.call.r, <<1, 3>>)
    /\ state[frame.n1] = A
    /\ state[frame.call.n1] # prev[frame.call.n1]

\* What holds: a function that runs its own noise branch applies it to the
\* index it drew.
C17_DirectCase ==
    (NoiseTick /\ ~Delegated) =>
        /\ \A j \in Sites : j # frame.n1 => state[j] = prev[j]
        /\ state = step(prev, F, NoiseAtOwnTarget)

----------------------------------------------------------------------------
\* Properties of the sampling of run_simulation_avg.

\* abs(m - a) / (m + a) of an array with m + a > 0
GapOf(st) ==
    Norm(<<Abs(CountOf(st, M) - CountOf(st, A)),
           CountOf(st, M) + CountOf(st, A)>>)

Valid(st) == CountOf(st, M) + CountOf(st, A) > 0

\* A run of run_simulation_avg is open and its latest tick was a main-loop
\* tick; a run has just ended.
AfterMainTick == pc = "avg_run" /\ t > Teq
RunEnded == pc = "avg" /\ run > 0

\* x / n for a fraction x and n > 0
Over(x, n) == Norm(<<x[1], x[2] * n>>)

C18_Unsampled ==
    /\ AfterMainTick
    /\ (t - Teq - 1) % N # 0
    /\ Valid(state)
    /\ G_vals # <<>>
    /\ G_vals[Len(G_vals)] # GapOf(state)

\* The call was made by the sweep loop of the named script.
SweepOf(script) == config.script = script

\* C19: each call the sweep loop of spatial_recuit.py makes to
\* run_simulation_avg executes, in each run, Teq equilibration ticks and
\* then exactly the module's configured Tmax main-loop ticks.
C19_ConfiguredTicks ==
    (SweepOf("spatial_recuit") /\ RunEnded) =>
        /\ seen.eq = Teq
        /\ seen.meas = config.Tmax

\* A call of the spatial sweep, the module's Tmax being N + 1 and its
\* num_runs 1, has ended a run after Teq equilibration ticks and one
\* main-loop tick: the parameter Tmax was bound to num_runs.
C19_SweepRan ==
    /\ SweepOf("spatial_recuit")
    /\ RunEnded
    /\ config.Tmax = N + 1
    /\ config.num_runs = 1
    /\ Tmax = config.num_runs
    /\ num_runs = DefaultRuns
    /\ seen.eq = Teq
    /\ seen.meas = 1

\* What holds: a run of the spatial sweep makes Teq equilibration ticks and
\* as many main-loop ticks as the module's num_runs; a run of the sweep of
\* coop_noncoop.py, which passes Tmax, makes the configured Tmax.
C19_BoundTicks ==
    RunEnded =>
        /\ seen.eq = Teq
        /\ SweepOf("spatial_recuit") => seen.meas = config.num_runs
        /\ SweepOf("coop_noncoop") => seen.meas = config.Tmax

\* C20: in simulate_distribution each run applies exactly Teq ticks before
\* its first sample and samples none of them, and the array that enters the
\* main loop is the array those ticks produced: each equilibration call is
\* given a copy, mutates it and returns it, and state is bound to the array
\* returned, so that no update is lost.
C20_EquilibrationKept ==
    /\ (InRun /\ t <= Teq) =>
        /\ seen = [eq |-> t, meas |-> 0, sampled |-> 0]
        /\ Total(hist_total) = run * Ceil(Tmax, N)
    /\ (InRun /\ seen.meas > 0) => seen.eq = Teq
    /\ (InRun /\ seen.sampled > 0) => seen.eq = Teq
    /\ (InRun /\ t > 0) => state = returned

\* The equilibration of a run has ended on a tick that changed a mark: the
\* array that was copied is as it was and state is the array returned.
C20_Witness ==
    /\ InRun
    /\ Teq > 0
    /\ t = Teq
    /\ Tmax > 0
    /\ state # prev
    /\ state = returned
    /\ seen.eq = Teq
    /\ seen.sampled = 0

----------------------------------------------------------------------------
\* Properties of the coin and of the delegated noise branch.

\* The draws a call of the step function name can make, by F.
Draws(name) ==
    IF name \in GlobalFns THEN GlobalDraws
    ELSE IF name \in CoopFns THEN CoopDraws
    ELSE IF name \in NoncoopFns THEN NoncoopDraws
    ELSE IF name = "neighbour_limited" THEN NeighbourDraws
    ELSE PowerLawDraws

\* C21: with F = 0 alpha is 0 and no tick takes the feedback branch, so the
\* call step_coop_A/B/C(state, 0) or standard(state, 0) that a
\* non-cooperative or spatial function makes for its noise runs the noise
\* sub-rule once and returns, making no further call (nesting depth one);
\* and for every F >= 0 alpha < 1, so that every tick can land on noise.
C21_FallbackIsNoise ==
    /\ (Stepped /\ F = 0) => frame.branch = "noise"
    /\ Delegated =>
        /\ frame.call.branch = "noise"
        /\ "call" \notin DOMAIN frame.call
        /\ state = step(prev, 0, frame.call)
    /\ pc = "idle" =>
        /\ \A c \in Coins : ~Less(c, alpha(0))
        /\ Less(alpha(F), <<1, 1>>)
        /\ \E d \in Draws(fn)[F] : d.branch = "noise"

\* power_law_contact, run with F = MaxF, landed on noise and the call
\* standard(state, 0) it made acetylated a U site.
C21_Witness ==
    /\ Delegated
    /\ fn = "power_law_contact"
    /\ F = MaxF
    /\ frame.call.branch = "noise"
    /\ prev[frame.call.n1] = U
    /\ state[frame.call.n1] = A

\* A tick run with F = 0 landed on noise through step_coop_B(state, 0).
C21_ZeroF ==
    /\ Delegated
    /\ fn = "step_noncoop_B"
    /\ F = 0
    /\ state # prev

----------------------------------------------------------------------------
\* Properties of the recruiter index in the spatial modes.

\* The sites next to i on the ring of N sites.
LeftOf(i) == IF i = 0 THEN N - 1 ELSE i - 1
RightOf(i) == IF i = N - 1 THEN 0 ELSE i + 1

\* The site k places to the right of i on the ring, for 0 <= k < N.
Around(i, k) == IF i + k >= N THEN i + k - N ELSE i + k

\* The recruiters the feedback draws ds give the target a.
Recruiters(ds, a) == {d.n2 : d \in {e \in ds : e.branch = "feedback" /\ e.n1 = a}}

\* C22: for every target n1 the recruiter of neighbour_limited is the left
\* or the right neighbour of n1 on the ring (N-1 for target 0 on the left,
\* 0 for target N-1 on the right), and the recruiter of power_law_contact is
\* d sites to the right or to the left of n1 for the distance d of 1..N-1
\* that was drawn; both are indices of 0..N-1 and never the target, both
\* neighbours can be drawn, and in power_law_contact every site other than
\* the target can be drawn.
C22_RecruiterIndex ==
    /\ (FeedbackTick /\ fn = "neighbour_limited") =>
        /\ frame.n2 = IF Less(frame.side, <<1, 2>>)
                      THEN LeftOf(frame.n1) ELSE RightOf(frame.n1)
        /\ frame.n2 \in Sites
        /\ frame.n2 # frame.n1
    /\ (FeedbackTick /\ fn = "power_law_contact") =>
        /\ frame.d \in 1 .. (N - 1)
        /\ frame.n2 = IF Less(frame.side, <<1, 2>>)
                      THEN Around(frame.n1, frame.d)
                      ELSE Around(frame.n1, N - frame.d)
        /\ frame.n2 \in Sites
        /\ frame.n2 # frame.n1
    /\ (pc = "idle" /\ fn = "neighbour_limited" /\ F > 0) =>
        \A a \in Sites :
            Recruiters(NeighbourDraws[F], a) = {LeftOf(a), RightOf(a)}
    /\ (pc = "idle" /\ fn = "power_law_contact" /\ F > 0) =>
        \A a \in Sites : Recruiters(PowerLawDraws[F], a) = Sites \ {a}

\* neighbour_limited drew the target 0 and its left neighbour N-1, an M
\* site, which methylated the target.
C22_Witness ==
    /\ FeedbackTick
    /\ fn = "neighbour_limited"
    /\ frame.n1 = 0
    /\ frame.n2 = N - 1
    /\ prev[N - 1] = M
    /\ prev[0] = U
    /\ state[0] = M

\* power_law_contact drew the target N-1 and, going right by the longest
\* distance, the recruiter N-2, an A site, which demethylated the target.
C22_PowerLawWrap ==
    /\ FeedbackTick
    /\ fn = "power_law_contact"
    /\ frame.n1 = N - 1
    /\ frame.d = N - 1
    /\ Less(frame.side, <<1, 2>>)
    /\ frame.n2 = N - 2
    /\ prev[N - 2] = A
    /\ prev[N - 1] = M
    /\ state[N - 1] = U

----------------------------------------------------------------------------
\* Properties of the noise sub-rule as a Markov chain on one site.

\* The array the call name(st, F_) returns when its draws are d.
Run(name, st, F_, d) ==
    CASE name = "step" -> step(st, F_, d)
      [] name = "bistability_step" -> bistability_step(st, F_, d)
      [] name = "step_coop_A" -> step_coop_A(st, F_, d)
      [] name = "step_noncoop_A" -> step_noncoop_A(st, F_, d)
      [] name = "step_coop_B" -> step_coop_B(st, F_, d)
      [] name = "step_noncoop_B" -> step_noncoop_B(st, F_, d)
      [] name = "step_coop_C" -> step_coop_C(st, F_, d)
      [] name = "step_noncoop_C" -> step_noncoop_C(st, F_, d)
      [] name = "standard" -> standard(st, F_, d)
      [] name = "neighbour_limited" -> neighbour_limited(st, F_, d)
      [] name = "power_law_contact" -> power_law_contact(st, F_, d)

\* np.random.rand() is uniform on [0,1) and the noise rule compares it with
\* 1/3 and 2/3 only, so the rule is constant on each of the Cells intervals
\* [k/Cells, (k+1)/Cells), which have probability 1/Cells each.
Cells == 3 * RDen

\* A coin, which lands on noise when F = 0.
NoiseCoin == <<0, CoinDen>>

\* The draws of a call of name that lands on noise and applies it to the
\* site i with r in the k-th interval.
CellDraws(name, i, k) ==
    LET own == [branch |-> "noise", n1 |-> i, r0 |-> NoiseCoin,
                r |-> <<k, Cells>>]
    IN  IF name \in NoncoopFns \cup SpatialFns
        THEN [branch |-> "noise", n1 |-> i, r0 |-> NoiseCoin, call |-> own]
        ELSE own

\* The probabilities of the marks at the site i of st after a tick of name
\* with F = 0 that drew that site, as a function of the mark.
NoiseRow(name, st, i) ==
    LET out == [k \in 0 .. (Cells - 1) |->
                    Run(name, st, 0, CellDraws(name, i, k))[i]]
    IN  [y \in Marks |->
            Norm(<<Cardinality({k \in 0 .. (Cells - 1) : out[k] = y}),
                   Cells>>)]

\* What is claimed: 1/3 between U and A and between U and M, 0 between A
\* and M, the rest for staying.
Claimed(x, y) ==
    IF x = y THEN IF x = U THEN <<1, 3>> ELSE <<2, 3>>
    ELSE IF x = U \/ y = U THEN <<1, 3>>
    ELSE <<0, 1>>

\* The array of the mark x at every site.
Uniform(x) == [i \in Sites |-> x]

\* The probabilities of the marks at a site after one noise tick of name on
\* that site, the mark before being uniform over A, U, M.
AfterUniform(name) ==
    LET row == [x \in Marks |-> NoiseRow(name, Uniform(x), 0)]
        third(q) == Norm(<<q[1], 3 * q[2]>>)
    IN  [y \in Marks |->
            FracSum(<<third(row[A][y]), third(row[U][y]), third(row[M][y])>>)]

\* C23: the one-step transition probabilities of the noise sub-rule on a
\* site are symmetric: 1/3 from A to U and from U to A, 1/3 from U to M and
\* from M to U, 0 between A and M; so the uniform distribution over A, U, M
\* is stationary for a site under noise alone, a noise tick moves a site
\* only along a pair of positive probability, and a U site can become A or
\* M in one noise tick, so that from the all-U array every mark can be
\* reached at every site.
C23_SymmetricNoise ==
    /\ (pc = "idle" /\ F = 0) =>
        \A i \in Sites :
            NoiseRow(fn, state, i) = [y \in Marks |-> Claimed(state[i], y)]
    /\ (pc = "idle" /\ F = 0 /\ state = Uniform(U)) =>
        /\ \A x, y \in Marks : Claimed(x, y) = Claimed(y, x)
        /\ AfterUniform(fn) = [y \in Marks |-> <<1, 3>>]
        /\ \A i \in Sites : \A y \in Marks :
            Less(<<0, 1>>, NoiseRow(fn, state, i)[y])
    /\ NoiseTick =>
        \A i \in Sites :
            state[i] # prev[i] => Claimed(prev[i], state[i]) = <<1, 3>>

\* A noise tick of standard demethylated an M site of an array that had no
\* U site.
C23_Witness ==
    /\ NoiseTick
    /\ fn = "standard"
    /\ F = 0
    /\ \A i \in Sites : prev[i] # U
    /\ prev[frame.n1] = M
    /\ state[frame.n1] = U

\* A noise tick left the all-U array.
C23_FromAllU ==
    /\ NoiseTick
    /\ prev = Uniform(U)
    /\ state[N - 1] = A

----------------------------------------------------------------------------
\* Properties of the counts over one tick.

\* The sites at which the tick changed the array.
ChangedSites == {i \in Sites : state[i] # prev[i]}

\* C24: in one tick of any step function no site goes from A to M or from M
\* to A: the tick changes nothing or moves one site between U and A or
\* between U and M.  So over a tick either the A count or the M count
\* changes, by 1, or neither does; M - A changes by at most 1; and the
\* counts of A, U and M add up to N.
C24_NoDirectFlip ==
    Stepped =>
        LET A1 == CountOf(state, A)
            M1 == CountOf(state, M)
            dA == A1 - CountOf(prev, A)
            dM == M1 - CountOf(prev, M)
        IN  /\ Cardinality(ChangedSites) <= 1
            /\ \A i \in ChangedSites : prev[i] = U \/ state[i] = U
            /\ <<dA, dM>> \in {<<0, 0>>, <<1, 0>>, <<0 - 1, 0>>, <<0, 1>>,
                              <<0, 0 - 1>>}
            /\ dM - dA \in {0 - 1, 0, 1}
            /\ A1 + CountOf(state, U) + M1 = N

\* An M recruiter of neighbour_limited met an A target: the target became
\* U, the A count fell by 1 and the M count stayed.
C24_Witness ==
    /\ FeedbackTick
    /\ fn = "neighbour_limited"
    /\ prev[frame.n2] = M
    /\ prev[frame.n1] = A
    /\ state[frame.n1] = U
    /\ CountOf(state, A) = CountOf(prev, A) - 1
    /\ CountOf(state, M) = CountOf(prev, M)

----------------------------------------------------------------------------
\* Properties of the labels of consecutive ticks.

\* The ticks whose label differs from the label of the tick before.
Switches == {i \in 2 .. Len(labels) : labels[i] # labels[i - 1]}

\* The tick just processed closed a run: an entry was appended for the run
\* that was open before it.
ClosedRun ==
    /\ Len(labels) >= 2
    /\ labels[Len(labels) - 1] # "None"
    /\ labels[Len(labels)] # labels[Len(labels) - 1]

\* C25: with the 1.5x rule (M-dominant iff M > 1.5 A, A-dominant iff
\* A > 1.5 M, null otherwise, the all-U array being null) the labels of two
\* consecutive ticks of a trajectory of step are never M-dominant and
\* A-dominant, in either order: a null tick lies between two runs of
\* different labels, and calculate_lifetime never closes a run and opens a
\* non-null one in the same tick.
C25_NullBetweenRuns ==
    pc = "lifetime" =>
        /\ Label(Uniform(U)) = "None"
        /\ labels # <<>> =>
            /\ labels[Len(labels)] = Label(state)
            /\ current_state = Label(state)
        /\ \A i \in Switches : labels[i] = "None" \/ labels[i - 1] = "None"
        /\ ClosedRun => current_state = "None"

\* An M-dominant run was closed by a null tick and an A-dominant run was
\* opened by the tick after it.
C25_Witness ==
    /\ pc = "lifetime"
    /\ Len(labels) >= 3
    /\ labels[Len(labels) - 2] = "M"
    /\ labels[Len(labels) - 1] = "None"
    /\ labels[Len(labels)] = "A"
    /\ durations # <<>>
    /\ current_state = "A"
    /\ current_duration = 1

----------------------------------------------------------------------------
\* Properties of a recruiter that carries the target's mark.

\* Every recruiter of the feedback tick carried the mark m.
RecruitersCarry(m) ==
    /\ prev[frame.n2] = m
    /\ fn \in CoopFns => prev[frame.n3] = m

UniformArrays == {Uniform(A), Uniform(U), Uniform(M)}

\* C26: in every step function a feedback tick whose recruiter verdict is
\* the mark the target already has changes nothing.  So a site drawn as its
\* own recruiter (n2 = n1) does not change, and a feedback tick leaves the
\* arrays all-A, all-M and all-U as they are: only a noise tick can leave
\* them.
C26_SameMarkNoChange ==
    /\ FeedbackTick =>
        /\ RecruitersCarry(prev[frame.n1]) => state = prev
        /\ frame.n2 = frame.n1 => state = prev
        /\ prev \in UniformArrays => state = prev
    /\ (Stepped /\ prev \in UniformArrays /\ state # prev) => NoiseTick

\* step drew an M site of a mixed array as target and as its own recruiter
\* and left the array as it was.
C26_Witness ==
    /\ FeedbackTick
    /\ fn = "step"
    /\ frame.n2 = frame.n1
    /\ prev[frame.n1] = M
    /\ prev \notin UniformArrays
    /\ state = prev

\* A feedback tick of step_coop_A on the all-A array, its two recruiters
\* distinct from the target, changed nothing.
C26_UniformKept ==
    /\ FeedbackTick
    /\ fn = "step_coop_A"
    /\ prev = Uniform(A)
    /\ frame.n2 # frame.n1
    /\ frame.n3 # frame.n1
    /\ state = prev

\* A noise tick left the all-M array.
C26_NoiseLeaves ==
    /\ NoiseTick
    /\ prev = Uniform(M)
    /\ state # prev

----------------------------------------------------------------------------
\* Properties of the accounting of ticks in calculate_lifetime.

\* The ticks of the label sequence ls whose label is not null.
NonNullTicks(ls) == {i \in 1 .. Len(ls) : ls[i] # "None"}

\* The length of the open run, counted when its label is not null.
OpenDuration == IF current_state # "None" THEN current_duration ELSE 0

\* C27: in calculate_lifetime, after t ticks the recorded durations and the
\* duration of the open run, counted only when its label is not null, add
\* up to the number of those t ticks that have a non-null label; at the end
\* of the trajectory the recorded durations and the number of null ticks add
\* up to Tmax.
C27_TicksAccounted ==
    /\ pc \in {"labels", "lifetime"} =>
        /\ Len(labels) = t
        /\ SeqSum(durations) + OpenDuration
               = Cardinality(NonNullTicks(labels))
    /\ pc = "done" =>
        /\ Len(labels) = Tmax
        /\ SeqSum(durations) + (Tmax - Cardinality(NonNullTicks(labels)))
               = Tmax

\* A trajectory of two recorded runs and an open null run of two ticks.
C27_Witness ==
    /\ pc = "labels"
    /\ t >= 5
    /\ Len(durations) = 2
    /\ current_state = "None"
    /\ current_duration = 2
    /\ SeqSum(durations) = t - 2

\* A trajectory ended inside a run, with null ticks before it.
C27_EndInsideRun ==
    /\ pc = "done"
    /\ Tmax >= 4
    /\ labels[Tmax] # "None"
    /\ Cardinality(NonNullTicks(labels)) < Tmax
    /\ Len(durations) >= 2

=============================================================================
